---- MODULE Spec2Model ----
(***************************************************************************)
(* Model of the HYDRA MODE P2PK scanner (p2pk_scanner/hydra_mode_scanner.py)*)
(* and of the database helper it uses (utils/database.py).                 *)
(*                                                                         *)
(* Part 1: the script classifier, the quick-scan predicate and             *)
(*         process_transaction, as operators over decoded scripts whose    *)
(*         strings are sequences of one-character strings.                 *)
(* Part 2: the write-behind layer (write queue, writer loop, flush,        *)
(*         address resolution) with the workers that feed it.              *)
(* Part 3: the scan pipeline (distributor, workers, progress row,          *)
(*         supervisor).                                                    *)
(***************************************************************************)
EXTENDS Integers, Sequences, FiniteSets, TLC

(***************************************************************************)
(* Part 1.  Strings                                                        *)
(***************************************************************************)

\* n copies of the character c
Rep(c, n) == [i \in 1..n |-> c]

\* s.startswith(p)
StartsWith(s, p) == Len(s) >= Len(p) /\ SubSeq(s, 1, Len(p)) = p

\* p in s
Contains(s, p) == \E i \in 1..(Len(s) - Len(p) + 1) : SubSeq(s, i, i + Len(p) - 1) = p

\* '0123456789abcdefABCDEF'
HexDigits == {"0","1","2","3","4","5","6","7","8","9",
              "a","b","c","d","e","f","A","B","C","D","E","F"}

\* all(c in '0123456789abcdefABCDEF' for c in s[1:])
AllHexFromSecond(s) == \A i \in 2..Len(s) : s[i] \in HexDigits

\* s[2:-2]
StripPushAndOpcode(s) == SubSeq(s, 3, Len(s) - 2)

\* the asm token 'OP_CHECKSIG'
OP_CHECKSIG == <<"O","P","_","C","H","E","C","K","S","I","G">>

\* Python's None (and the empty string, equally falsy) as a result
None == <<>>

UNCOMPRESSED_KEY_LEN == 130
COMPRESSED_KEY_LEN == 66
UNCOMPRESSED_SCRIPT_LEN == 134
COMPRESSED_SCRIPT_LEN == 70
SIG_MIN_LEN == 142
SIG_MAX_LEN == 146
ADDRESS_KEY_LEN == 34

P04 == <<"0","4">>
P02 == <<"0","2">>
P03 == <<"0","3">>
P41 == <<"4","1">>

\* A script descriptor is [type, asm, hex]: asm is the list asm.split() of
\* its tokens (the empty list for a missing or empty asm), hex a string.
\* 'OP_CHECKSIG' in asm
AsmMentionsChecksig(asm) == \E i \in 1..Len(asm) : Contains(asm[i], OP_CHECKSIG)

\* the shape test both the classifier and the quick scan apply to parts[0]
LooksLikeKey(pk) ==
    \/ Len(pk) = UNCOMPRESSED_KEY_LEN /\ StartsWith(pk, P04)
    \/ Len(pk) = COMPRESSED_KEY_LEN /\ (StartsWith(pk, P02) \/ StartsWith(pk, P03))

\* is_p2pk_script, primary detection method (type == 'pubkey', asm)
PrimaryDetect(spk) ==
    IF /\ spk.type = "pubkey"
       /\ spk.asm # <<>>
       /\ AsmMentionsChecksig(spk.asm)
       /\ Len(spk.asm) >= 2
       /\ spk.asm[Len(spk.asm)] = OP_CHECKSIG
    THEN LET public_key == spk.asm[1] IN
         IF LooksLikeKey(public_key) /\ AllHexFromSecond(public_key)
         THEN public_key ELSE None
    ELSE None

\* is_p2pk_script, secondary detection method (hex field)
SecondaryDetect(spk) ==
    LET hex_data == spk.hex IN
    IF hex_data = <<>> THEN None
    ELSE IF Len(hex_data) = UNCOMPRESSED_SCRIPT_LEN /\ StartsWith(hex_data, P41)
    THEN LET public_key == StripPushAndOpcode(hex_data) IN
         IF Len(public_key) = UNCOMPRESSED_KEY_LEN /\ StartsWith(public_key, P04)
         THEN public_key ELSE None
    ELSE IF Len(hex_data) = COMPRESSED_SCRIPT_LEN /\ StartsWith(hex_data, P41)
    THEN LET public_key == StripPushAndOpcode(hex_data) IN
         IF /\ Len(public_key) = COMPRESSED_KEY_LEN
            /\ (StartsWith(public_key, P02) \/ StartsWith(public_key, P03))
         THEN public_key ELSE None
    ELSE None

\* is_p2pk_script without its exclusion of type 'pubkeyhash'
is_p2pk_script_without_exclusion(spk) ==
    IF PrimaryDetect(spk) # None THEN PrimaryDetect(spk)
    ELSE SecondaryDetect(spk)

\* is_p2pk_script(script_pub_key): the public key, or None
is_p2pk_script(spk) ==
    IF spk.type = "pubkeyhash" THEN None
    ELSE IF PrimaryDetect(spk) # None THEN PrimaryDetect(spk)
    ELSE SecondaryDetect(spk)

\* the per-output test of quick_scan_block_for_p2pk
QuickOutputHit(spk) ==
    \/ spk.type = "pubkey"
    \/ /\ AsmMentionsChecksig(spk.asm)
       /\ Len(spk.asm) >= 2
       /\ spk.asm[Len(spk.asm)] = OP_CHECKSIG
       /\ LooksLikeKey(spk.asm[1])

\* quick_scan_block_for_p2pk(block_data)
quick_scan_block_for_p2pk(block_data) ==
    /\ block_data.tx # <<>>
    /\ \E t \in 1..Len(block_data.tx) :
          \E o \in 1..Len(block_data.tx[t].vout) :
              QuickOutputHit(block_data.tx[t].vout[o].scriptPubKey)

\* might_be_p2pk_input(vin): sig is the first token of scriptSig.asm, or None
\* when the input carries no scriptSig asm (or an empty one)
might_be_p2pk_input(vin) ==
    IF vin.sig # None
    THEN Len(vin.sig) >= SIG_MIN_LEN /\ Len(vin.sig) <= SIG_MAX_LEN
    ELSE TRUE

\* One P2PK event of process_transaction (amounts and block time are carried
\* through unchanged by the code and are left out)
P2pkEvent(txid, h, pk, is_input) ==
    [txid |-> txid, block_height |-> h, public_key_hex |-> pk, is_input |-> is_input]

\* process_transaction, "Process outputs (receiving)": acc is
\* p2pk_transactions, found is p2pk_addresses_found_in_tx
RECURSIVE ProcessOutputs(_, _, _, _, _)
ProcessOutputs(tx, h, i, acc, found) ==
    IF i > Len(tx.vout) THEN [events |-> acc, found |-> found]
    ELSE LET public_key == is_p2pk_script(tx.vout[i].scriptPubKey) IN
         IF public_key # None /\ public_key \notin found
         THEN ProcessOutputs(tx, h, i + 1,
                             Append(acc, P2pkEvent(tx.txid, h, public_key, FALSE)),
                             found \cup {public_key})
         ELSE ProcessOutputs(tx, h, i + 1, acc, found)

\* process_transaction, "Process inputs (spending)": node maps a txid to the
\* transaction bitcoin_rpc.get_raw_transaction returns; a txid outside its
\* domain makes the call raise, which the loop body logs and skips, as it
\* skips an index error on prev_tx['vout'][vin['vout']]
RECURSIVE ProcessInputs(_, _, _, _, _, _)
ProcessInputs(tx, h, node, i, acc, found) ==
    IF i > Len(tx.vin) THEN acc
    ELSE LET vin == tx.vin[i] IN
         IF ~vin.has_prev \/ ~might_be_p2pk_input(vin)
         THEN ProcessInputs(tx, h, node, i + 1, acc, found)
         ELSE IF vin.txid \notin DOMAIN node
         THEN ProcessInputs(tx, h, node, i + 1, acc, found)
         ELSE LET prev_tx == node[vin.txid] IN
              IF vin.vout + 1 > Len(prev_tx.vout)
              THEN ProcessInputs(tx, h, node, i + 1, acc, found)
              ELSE LET public_key == is_p2pk_script(prev_tx.vout[vin.vout + 1].scriptPubKey) IN
                   IF public_key # None /\ public_key \notin found
                   THEN ProcessInputs(tx, h, node, i + 1,
                                      Append(acc, P2pkEvent(tx.txid, h, public_key, TRUE)),
                                      found \cup {public_key})
                   ELSE ProcessInputs(tx, h, node, i + 1, acc, found)

\* process_transaction(tx, block_height, block_time)
process_transaction(tx, h, node) ==
    LET outs == ProcessOutputs(tx, h, 1, <<>>, {}) IN
    ProcessInputs(tx, h, node, 1, outs.events, outs.found)

\* worker, "Process transactions individually": the P2PK events of a block
\* in the order the worker hands them to add_transaction
RECURSIVE ProcessBlock(_, _, _, _)
ProcessBlock(block_data, h, node, t) ==
    IF t > Len(block_data.tx) THEN <<>>
    ELSE process_transaction(block_data.tx[t], h, node)
         \o ProcessBlock(block_data, h, node, t + 1)

\* worker: what one block contributes to the write queue, with the quick
\* scan optimisation switched on or off
WorkerBlockEvents(block_data, h, node, quick_scan) ==
    IF quick_scan /\ ~quick_scan_block_for_p2pk(block_data)
    THEN <<>>
    ELSE ProcessBlock(block_data, h, node, 1)

(***************************************************************************)
(* Decoded scripts, inputs and previous transactions the classifier        *)
(* specification draws its blocks from.                                    *)
(***************************************************************************)
Key04 == P04 \o Rep("a", 128)
Key02 == P02 \o Rep("b", 64)
KeyBadPrefix == <<"0","5">> \o Rep("a", 128)
Key03 == P03 \o Rep("C", 64)
KeyNotHex == P04 \o Rep("a", 127) \o <<"z">>
OpAC == <<"a","c">>
OP_DUP == <<"O","P","_","D","U","P">>
OP_RETURN == <<"O","P","_","R","E","T","U","R","N">>
HashToken == Rep("c", 40)

ScriptCatalog == <<
    \* 1: P2PK, uncompressed key, as Bitcoin Core decodes it
    [type |-> "pubkey", asm |-> <<Key04, OP_CHECKSIG>>, hex |-> P41 \o Key04 \o OpAC],
    \* 2: P2PK, compressed key (push opcode 0x21)
    [type |-> "pubkey", asm |-> <<Key02, OP_CHECKSIG>>, hex |-> <<"2","1">> \o Key02 \o OpAC],
    \* 3: P2PKH
    [type |-> "pubkeyhash", asm |-> <<OP_DUP, HashToken, OP_CHECKSIG>>, hex |-> HashToken],
    \* 4: recognised by the hex pattern only
    [type |-> "nonstandard", asm |-> <<>>, hex |-> P41 \o Key04 \o OpAC],
    \* 5: key-shaped asm under another type tag, no hex
    [type |-> "nonstandard", asm |-> <<Key04, OP_CHECKSIG>>, hex |-> <<>>],
    \* 6: type pubkey with a key of unknown shape
    [type |-> "pubkey", asm |-> <<KeyBadPrefix, OP_CHECKSIG>>, hex |-> <<>>],
    \* 7: P2PKH whose hex happens to match the pattern
    [type |-> "pubkeyhash", asm |-> <<OP_DUP, HashToken, OP_CHECKSIG>>, hex |-> P41 \o Key04 \o OpAC],
    \* 8: data carrier
    [type |-> "nulldata", asm |-> <<OP_RETURN, HashToken>>, hex |-> HashToken],
    \* 9: hex pattern of the compressed length
    [type |-> "nonstandard", asm |-> <<>>, hex |-> P41 \o Key02 \o OpAC],
    \* 10: P2PK, compressed key with the odd prefix
    [type |-> "pubkey", asm |-> <<Key03, OP_CHECKSIG>>, hex |-> <<"2","1">> \o Key03 \o OpAC],
    \* 11: type pubkey whose key holds a character that is no hex digit
    [type |-> "pubkey", asm |-> <<KeyNotHex, OP_CHECKSIG>>, hex |-> <<>>],
    \* 12: a descriptor with no type, asm or hex member (.get gives None, '', '')
    [type |-> "", asm |-> <<>>, hex |-> <<>>]
>>

\* what the node returns for the previous transactions
NodeTxs ==
    [t \in {"p1", "p2"} |->
        IF t = "p1"
        THEN [txid |-> "p1", vout |-> <<[scriptPubKey |-> ScriptCatalog[1]]>>, vin |-> <<>>]
        ELSE [txid |-> "p2", vout |-> <<[scriptPubKey |-> ScriptCatalog[3]]>>, vin |-> <<>>]]

InputCatalog == <<
    \* 1: coinbase input (no txid / vout)
    [has_prev |-> FALSE, txid |-> "", vout |-> 0, sig |-> None],
    \* 2: spends the P2PK output p1:0 with a 72-byte signature
    [has_prev |-> TRUE, txid |-> "p1", vout |-> 0, sig |-> Rep("3", 144)],
    \* 3: spends the P2PKH output p2:0
    [has_prev |-> TRUE, txid |-> "p2", vout |-> 0, sig |-> Rep("3", 144)],
    \* 4: spends p1:0, first scriptSig token too short for the heuristic
    [has_prev |-> TRUE, txid |-> "p1", vout |-> 0, sig |-> Rep("3", 100)],
    \* 5: previous transaction the node cannot return
    [has_prev |-> TRUE, txid |-> "gone", vout |-> 0, sig |-> None],
    \* 6: spends p1 at an index it does not have
    [has_prev |-> TRUE, txid |-> "p1", vout |-> 1, sig |-> None]
>>

MaxOutputs == 2
ClHeight == 7

\* the output lists of the transaction under test: 1..MaxOutputs catalog scripts
OutputLists ==
    UNION {[1..n -> 1..Len(ScriptCatalog)] : n \in 1..MaxOutputs}

TestBlock(outs, inp) ==
    [tx |-> <<[txid |-> "t1",
               vout |-> [i \in 1..Len(outs) |-> [scriptPubKey |-> ScriptCatalog[outs[i]]]],
               vin |-> <<InputCatalog[inp]>>]>>]

(***************************************************************************)
(* Part 2.  The write-behind layer                                         *)
(***************************************************************************)

\* add_transaction: public_key_hex[:34] is the address key
AddressKeyOf(public_key_hex) == SubSeq(public_key_hex, 1, ADDRESS_KEY_LEN)

\* The pipeline names an address key instead of carrying its 34 characters
\* through every queue item: "kA" and "kB" are the keys of Key04 and Key02.
KeyName(address_key) ==
    IF address_key = AddressKeyOf(Key04) THEN "kA"
    ELSE IF address_key = AddressKeyOf(Key02) THEN "kB"
    ELSE "kOther"

AddressKeys == {"kA", "kB"}

\* HydraModeDatabaseManager.__init__: self.max_retries = 3
max_retries == 3

\* SQL NULL / Python None in an address_id column, and the placeholder 0
\* add_transaction puts into transaction_data[3] and block_data[0]
NullId == 0 - 1
PlaceholderId == 0

\* no row for a key in p2pk_addresses
NoRow == [id |-> NullId, last_seen_block |-> NullId]

Max(a, b) == IF a >= b THEN a ELSE b

\* add_transaction: the three items one sighting puts on the write queue
QueueItem(type, ev) ==
    [type |-> type,
     address_key |-> KeyName(AddressKeyOf(ev.public_key_hex)),
     txid |-> ev.txid,
     block_height |-> ev.block_height,
     is_input |-> ev.is_input]

\* self.failed_addresses is a dict address_key -> (address_op, attempts); it
\* is kept as the sequence of its entries in insertion order
FailedAttempts(failed, key) ==
    IF \E i \in 1..Len(failed) : failed[i].address_key = key
    THEN (CHOOSE e \in {failed[i] : i \in 1..Len(failed)} : e.address_key = key).attempts
    ELSE 0

\* self.failed_addresses[address_key] = (address_op, attempts)
FailedPut(failed, op, attempts) ==
    LET entry == [address_key |-> op.address_key, block_height |-> op.block_height,
                  attempts |-> attempts] IN
    IF \E i \in 1..Len(failed) : failed[i].address_key = op.address_key
    THEN [i \in 1..Len(failed) |->
            IF failed[i].address_key = op.address_key THEN entry ELSE failed[i]]
    ELSE Append(failed, entry)

\* _flush_batch, first pass: item['data'] of every 'address' item, in order
\* (address_mapping is still empty, so no item is skipped)
RECURSIVE AddressOpsOf(_)
AddressOpsOf(items) ==
    IF items = <<>> THEN <<>>
    ELSE LET it == Head(items) IN
         IF it.type = "address"
         THEN <<[address_key |-> it.address_key, block_height |-> it.block_height]>>
              \o AddressOpsOf(Tail(items))
         ELSE AddressOpsOf(Tail(items))

\* _flush_batch: retry_ops, the address_op of every entry of failed_addresses
RetryOpsOf(failed) ==
    [i \in 1..Len(failed) |->
        [address_key |-> failed[i].address_key, block_height |-> failed[i].block_height]]

\* _bulk_insert_addresses, the failure branch of one address_op.  how is
\* "none" when the plain insert, the conflict-aware upsert and the final
\* lookup all come back empty (lines 448-456), "raise" when execute_upsert
\* raises (lines 457-465).  A RuntimeError raised at the threshold is caught
\* by each enclosing handler in turn, which counts the attempt again, until
\* the outermost handler (line 502) abandons the remaining address_ops.
FailOne(st, op, how) ==
    LET a1 == FailedAttempts(st.failed, op.address_key) + 1 IN
    IF a1 < max_retries
    THEN [st EXCEPT !.failed = FailedPut(st.failed, op, a1)]
    ELSE LET handlers == IF how = "none" THEN 2 ELSE 1 IN
         [st EXCEPT !.failed = FailedPut(st.failed, op, a1 + handlers),
                    !.aborted = TRUE]

\* _bulk_insert_addresses, one address_op (lines 369-474).
\*   st.addrs   p2pk_addresses, st.next_id the SERIAL of its id column
\*   st.stale   keys whose row was committed by a concurrent writer after this
\*              flush read "SELECT id ... WHERE address = %s" for them
\*   bad        keys whose insert the database refuses in this flush
ResolveOne(st, op, bad, how) ==
    LET k == op.address_key IN
    IF st.aborted THEN st
    ELSE IF st.addrs[k] # NoRow /\ k \notin st.stale
    THEN \* found: UPDATE ... SET last_seen_block = GREATEST(last_seen_block, %s)
         [st EXCEPT !.addrs[k].last_seen_block = Max(@, op.block_height)]
    ELSE IF st.addrs[k] = NoRow
    THEN IF k \in bad
         THEN FailOne(st, op, how)
         ELSE \* INSERT ... RETURNING id
              [st EXCEPT !.addrs[k] = [id |-> st.next_id,
                                       last_seen_block |-> op.block_height],
                         !.next_id = @ + 1]
    ELSE \* the row is there but the first SELECT did not see it: the plain
         \* INSERT conflicts and returns nothing
         IF k \in bad
         THEN \* the upsert returns nothing too; the final SELECT finds the row
              [st EXCEPT !.stale = @ \ {k}]
         ELSE \* INSERT ... ON CONFLICT (address) DO UPDATE SET
              \* last_seen_block = EXCLUDED.last_seen_block RETURNING id
              [st EXCEPT !.addrs[k].last_seen_block = op.block_height,
                         !.stale = @ \ {k}]

\* _bulk_insert_addresses(address_ops)
RECURSIVE BulkInsertAddresses(_, _, _, _)
BulkInsertAddresses(st, address_ops, bad, how) ==
    IF address_ops = <<>> THEN st
    ELSE BulkInsertAddresses(ResolveOne(st, Head(address_ops), bad, how),
                             Tail(address_ops), bad, how)

\* _flush_batch, second pass: the rows of one type with the resolved ids;
\* address_mapping.get(address_key) is None for a key the map does not hold.
\* address_key is not a column: it records which sighting a row came from.
RowsOf(items, type, mapping) ==
    {[txid |-> it.txid, block_height |-> it.block_height, is_input |-> it.is_input,
      address_id |-> IF it.address_key \in DOMAIN mapping
                     THEN mapping[it.address_key] ELSE NullId,
      address_key |-> it.address_key]
        : it \in {items[i] : i \in {j \in 1..Len(items) : items[j].type = type}}}

\* the address_ops of a flush with the new addresses ahead of the retried
AddressOpsNewFirst(retry_ops, batch_ops) == batch_ops \o retry_ops

\* _flush_batch: address_ops = retry_ops + address_ops (line 280)
AddressOpsInOrder(retry_ops, batch_ops) == retry_ops \o batch_ops

\* A flush that writes the transaction and block rows first, with the ids the
\* address table holds before the upserts, and only then upserts the addresses.
FlushBatchRowsFirst(items, failed, db, stale, bad, how, refused) ==
    LET batch_ops == AddressOpsOf(items)
        retry_ops == RetryOpsOf(failed)
        address_ops == AddressOpsInOrder(retry_ops, batch_ops)
        address_keys_in_batch == {address_ops[i].address_key : i \in 1..Len(address_ops)}
        address_mapping == [k \in address_keys_in_batch |-> db.addrs[k].id]
        st0 == [addrs |-> db.addrs, next_id |-> db.next_id, failed |-> <<>>,
                aborted |-> FALSE, stale |-> stale]
        st == BulkInsertAddresses(st0, address_ops, bad, how)
    IN  IF items = <<>>
        THEN [db |-> db, failed |-> failed, ok |-> TRUE]
        ELSE [db |-> [db EXCEPT
                        !.addrs = st.addrs, !.next_id = st.next_id,
                        !.txs = @ \cup RowsOf(items, "transaction", address_mapping),
                        !.blks = @ \cup RowsOf(items, "block", address_mapping)],
              failed |-> st.failed, ok |-> TRUE]

\* _flush_batch(batch) on the database db = [addrs, next_id, txs, blks] with
\* the retry map failed: the new [db, failed, ok].  refused names the bulk
\* insert whose executemany raises in this flush ("transactions", "blocks" or
\* "none"): _bulk_insert_transactions and _bulk_insert_blocks each commit on
\* their own and each catch their own exception and roll back (lines 513-529,
\* 538-554).
FlushBatch(items, failed, db, stale, bad, how, refused) ==
    LET batch_ops == AddressOpsOf(items)
        retry_ops == RetryOpsOf(failed)
        address_ops == AddressOpsInOrder(retry_ops, batch_ops)
        address_keys_in_batch == {address_ops[i].address_key : i \in 1..Len(address_ops)}
        st0 == [addrs |-> db.addrs, next_id |-> db.next_id, failed |-> <<>>,
                aborted |-> FALSE, stale |-> stale]
        st == BulkInsertAddresses(st0, address_ops, bad, how)
        address_mapping == [k \in address_keys_in_batch |-> st.addrs[k].id]
        unresolved == {k \in address_keys_in_batch : address_mapping[k] = NullId}
        db1 == [db EXCEPT !.addrs = st.addrs, !.next_id = st.next_id]
    IN  IF items = <<>>
        THEN \* "if not batch: return" (lines 250-251); the callers test the
             \* same before they call (lines 245, 639)
             [db |-> db, failed |-> failed, ok |-> TRUE]
        ELSE IF unresolved # {}
        THEN \* RuntimeError, logged by the handler at line 354
             [db |-> db1, failed |-> st.failed, ok |-> FALSE]
        ELSE [db |-> [db1 EXCEPT
                        !.txs = IF refused = "transactions" THEN @
                                ELSE @ \cup RowsOf(items, "transaction", address_mapping),
                        !.blks = IF refused = "blocks" THEN @
                                 ELSE @ \cup RowsOf(items, "block", address_mapping)],
              failed |-> st.failed, ok |-> TRUE]

(***************************************************************************)
(* Part 3.  The pipeline                                                   *)
(***************************************************************************)

\* The decoded blocks a chain is built from
PipelineBlocks == <<
    \* 1: one transaction paying Key04 (P2PK)
    TestBlock(<<1>>, 1),
    \* 2: one transaction paying Key02 (P2PK)
    TestBlock(<<2>>, 1),
    \* 3: P2PKH outputs only
    TestBlock(<<3>>, 1),
    \* 4: a P2PKH output, and an input that spends the P2PK output p1:0
    TestBlock(<<3>>, 2)
>>

VARIABLES
    config,               \* the command line: threads, batch_size, queue_size, ...
    chain,                \* height -> index into PipelineBlocks (the node's chain)
    main_queue,           \* _main: main_queue
    worker_queues,        \* _main: worker_queues[i]
    dist,                 \* distributor: position, worker index, current_depth
    wk,                   \* worker: position, block in hand, events still to add
    stop_event,
    pause_event,
    active_workers,
    total_blocks_scanned, \* the global counter
    blocks_failed,        \* performance_metrics['blocks_failed']
    write_queue,          \* HydraModeDatabaseManager.write_queue
    batch,                \* _writer_loop: batch
    wpc,                  \* _writer_loop: position
    writer_running,
    failed_addresses,
    racing,               \* keys a concurrent writer inserted during the flush
    db,                   \* p2pk_addresses, its id sequence, p2pk_transactions,
                          \* p2pk_address_blocks
    progress,             \* scan_progress row of hydra_mode_p2pk_scanner
    marker,               \* scan_progress row of block_processed_marker
    sup,                  \* _main: position, last_progress_update
    cl,                   \* the classifier specification's block and results
    stdin,                \* keyboard_listener: the lines the operator will type
    ap,                   \* the auto-pause specification's call and its result
    boot,                 \* _main before the threads start: the arguments, the
                          \* chain height and the other scanner's progress row
    rpc,                  \* BitcoinRPC._make_request: one call and what the
                          \* node answers to each of its requests
    conn                  \* DatabaseManager.connection: the statements of its
                          \* open transaction and the committed ones

pipeVars == <<config, chain, main_queue, worker_queues, dist, wk, stop_event,
              pause_event, active_workers, total_blocks_scanned, blocks_failed,
              write_queue, batch, wpc, writer_running, failed_addresses, racing,
              db, progress, marker, sup, stdin, boot>>
vars == <<pipeVars, cl, ap, rpc, conn>>

Workers == 1..config.threads
Heights == config.start_block..config.end_block

\* ------------------------------------------------------------- distributor

\* distributor: the top of the while loop (lines 1252-1264)
DistCheck ==
    /\ dist.pc = "check"
    /\ IF stop_event
       THEN dist' = [dist EXCEPT !.pc = "done"]
       ELSE IF main_queue = <<>>
       THEN /\ \A w \in Workers : worker_queues[w] = <<>>
            /\ dist' = [dist EXCEPT !.pc = "done"]
       ELSE dist' = [pc |-> "fill", i |-> 1, depth |-> Len(worker_queues[1]),
                     hand |-> 0]
    /\ UNCHANGED <<config, chain, main_queue, worker_queues, wk, stop_event,
                   pause_event, active_workers, total_blocks_scanned, blocks_failed,
                   write_queue, batch, wpc, writer_running, failed_addresses, racing,
                   db, progress, marker, sup, cl, stdin, ap, boot, rpc, conn>>

\* the distributor taking the newest height of main_queue instead of the
\* oldest
DistFillNewestFirst ==
    /\ dist.pc = "fill"
    /\ IF dist.depth < config.target_depth /\ ~stop_event /\ main_queue # <<>>
       THEN /\ main_queue' = SubSeq(main_queue, 1, Len(main_queue) - 1)
            /\ worker_queues' = [worker_queues EXCEPT
                                    ![dist.i] = Append(@, main_queue[Len(main_queue)])]
            /\ dist' = [dist EXCEPT !.depth = @ + 1]
       ELSE /\ UNCHANGED <<main_queue, worker_queues>>
            /\ IF dist.i < config.threads
               THEN dist' = [dist EXCEPT !.i = @ + 1,
                                         !.depth = Len(worker_queues[dist.i + 1])]
               ELSE dist' = [dist EXCEPT !.pc = IF stop_event THEN "done" ELSE "check"]
    /\ UNCHANGED <<config, chain, wk, stop_event,
                   pause_event, active_workers, total_blocks_scanned, blocks_failed,
                   write_queue, batch, wpc, writer_running, failed_addresses, racing,
                   db, progress, marker, sup, cl, stdin, ap, boot, rpc, conn>>

\* the distributor topping a queue up without the test of current_depth
DistFillWithoutDepthTest ==
    /\ dist.pc = "fill"
    /\ IF ~stop_event /\ main_queue # <<>>
       THEN /\ main_queue' = Tail(main_queue)
            /\ worker_queues' = [worker_queues EXCEPT
                                    ![dist.i] = Append(@, Head(main_queue))]
            /\ dist' = [dist EXCEPT !.depth = @ + 1]
       ELSE /\ UNCHANGED <<main_queue, worker_queues>>
            /\ IF dist.i < config.threads
               THEN dist' = [dist EXCEPT !.i = @ + 1,
                                         !.depth = Len(worker_queues[dist.i + 1])]
               ELSE dist' = [dist EXCEPT !.pc = IF stop_event THEN "done" ELSE "check"]
    /\ UNCHANGED <<config, chain, wk, stop_event,
                   pause_event, active_workers, total_blocks_scanned, blocks_failed,
                   write_queue, batch, wpc, writer_running, failed_addresses, racing,
                   db, progress, marker, sup, cl, stdin, ap, boot, rpc, conn>>

\* distributor: one turn of "while current_depth < target_depth" for worker
\* dist.i, or the step to the next worker queue (lines 1267-1298)
DistFill ==
    /\ dist.pc = "fill"
    /\ IF dist.depth < config.target_depth /\ ~stop_event /\ main_queue # <<>>
       THEN /\ main_queue' = Tail(main_queue)
            /\ worker_queues' = [worker_queues EXCEPT
                                    ![dist.i] = Append(@, Head(main_queue))]
            /\ dist' = [dist EXCEPT !.depth = @ + 1]
       ELSE /\ UNCHANGED <<main_queue, worker_queues>>
            /\ IF dist.i < config.threads
               THEN dist' = [dist EXCEPT !.i = @ + 1,
                                         !.depth = Len(worker_queues[dist.i + 1])]
               ELSE dist' = [dist EXCEPT !.pc = IF stop_event THEN "done" ELSE "check"]
    /\ UNCHANGED <<config, chain, wk, stop_event,
                   pause_event, active_workers, total_blocks_scanned, blocks_failed,
                   write_queue, batch, wpc, writer_running, failed_addresses, racing,
                   db, progress, marker, sup, cl, stdin, ap, boot, rpc, conn>>

\* the distributor's inner loop without the test of the stop event
DistGetIgnoresStop ==
    /\ dist.pc = "fill"
    /\ IF dist.depth < config.target_depth /\ main_queue # <<>>
       THEN /\ main_queue' = Tail(main_queue)
            /\ dist' = [dist EXCEPT !.pc = "put", !.hand = Head(main_queue)]
       ELSE /\ UNCHANGED main_queue
            /\ IF dist.i < config.threads
               THEN dist' = [dist EXCEPT !.i = @ + 1,
                                         !.depth = Len(worker_queues[dist.i + 1])]
               ELSE dist' = [dist EXCEPT !.pc = IF stop_event THEN "done" ELSE "check"]
    /\ UNCHANGED <<config, chain, worker_queues, wk, stop_event,
                   pause_event, active_workers, total_blocks_scanned, blocks_failed,
                   write_queue, batch, wpc, writer_running, failed_addresses, racing,
                   db, progress, marker, sup, cl, stdin, ap, boot, rpc, conn>>

\* distributor, one statement at a time: the test of "while current_depth <
\* target_depth and not stop_event.is_set()" followed by main_queue.get, or
\* the step to the next worker queue (lines 1267-1298).  The height taken is
\* in the local block_height until DistPut places it.
DistGet ==
    /\ dist.pc = "fill"
    /\ IF dist.depth < config.target_depth /\ ~stop_event /\ main_queue # <<>>
       THEN /\ main_queue' = Tail(main_queue)
            /\ dist' = [dist EXCEPT !.pc = "put", !.hand = Head(main_queue)]
       ELSE /\ UNCHANGED main_queue
            /\ IF dist.i < config.threads
               THEN dist' = [dist EXCEPT !.i = @ + 1,
                                         !.depth = Len(worker_queues[dist.i + 1])]
               ELSE dist' = [dist EXCEPT !.pc = IF stop_event THEN "done" ELSE "check"]
    /\ UNCHANGED <<config, chain, worker_queues, wk, stop_event,
                   pause_event, active_workers, total_blocks_scanned, blocks_failed,
                   write_queue, batch, wpc, writer_running, failed_addresses, racing,
                   db, progress, marker, sup, cl, stdin, ap, boot, rpc, conn>>

\* the distributor feeding worker queues that hold one height at most: a put
\* on a full queue raises queue.Full and the loop for this worker ends with
\* the height still in the local block_height
DistPutBoundedQueue ==
    /\ dist.pc = "put"
    /\ IF worker_queues[dist.i] = <<>>
       THEN /\ worker_queues' = [worker_queues EXCEPT ![dist.i] = Append(@, dist.hand)]
            /\ dist' = [dist EXCEPT !.pc = "fill", !.depth = @ + 1, !.hand = 0]
       ELSE /\ UNCHANGED worker_queues
            /\ dist' = [dist EXCEPT !.pc = "fill", !.depth = config.target_depth,
                                    !.hand = 0]
    /\ UNCHANGED <<config, chain, main_queue, wk, stop_event,
                   pause_event, active_workers, total_blocks_scanned, blocks_failed,
                   write_queue, batch, wpc, writer_running, failed_addresses, racing,
                   db, progress, marker, sup, cl, stdin, ap, boot, rpc, conn>>

\* distributor: worker_queue.put(block_height, block=False) and
\* current_depth += 1 (lines 1274-1275)
DistPut ==
    /\ dist.pc = "put"
    /\ worker_queues' = [worker_queues EXCEPT ![dist.i] = Append(@, dist.hand)]
    /\ dist' = [dist EXCEPT !.pc = "fill", !.depth = @ + 1, !.hand = 0]
    /\ UNCHANGED <<config, chain, main_queue, wk, stop_event,
                   pause_event, active_workers, total_blocks_scanned, blocks_failed,
                   write_queue, batch, wpc, writer_running, failed_addresses, racing,
                   db, progress, marker, sup, cl, stdin, ap, boot, rpc, conn>>

\* ---------------------------------------------------------------- operator

\* keyboard_listener: one line read from stdin while the stop event is clear;
\* 'q' sets the stop event, 'p' toggles the pause event, any other command
\* only prints (lines 1309-1363)
keyboard_listener ==
    /\ ~stop_event
    /\ stdin # <<>>
    /\ stdin' = Tail(stdin)
    /\ LET command == Head(stdin) IN
         IF command = "q"
         THEN /\ stop_event' = TRUE
              /\ UNCHANGED pause_event
         ELSE IF command = "p"
         THEN /\ pause_event' = ~pause_event
              /\ UNCHANGED stop_event
         ELSE UNCHANGED <<stop_event, pause_event>>
    /\ UNCHANGED <<config, chain, main_queue, worker_queues, dist, wk,
                   active_workers, total_blocks_scanned, blocks_failed,
                   write_queue, batch, wpc, writer_running, failed_addresses, racing,
                   db, progress, marker, sup, cl, ap, boot, rpc, conn>>

\* ------------------------------------------------------------------ worker

\* update_scan_progress(db_manager, block_height, blocks_scanned)
update_scan_progress(row, block_height, blocks_scanned) ==
    [last_scanned_block |-> block_height,
     total_blocks_scanned |-> row.total_blocks_scanned + blocks_scanned]

\* bitcoin_rpc.get_block_by_height: the block, nothing, or an exception
FetchOutcomes == IF config.rpc_faults THEN {"ok", "nothing", "raise"} ELSE {"ok"}

\* the worker giving up the height it has just taken when the pause event is
\* set
WorkerGetSkipsWhenPaused(w) ==
    /\ wk[w].pc = "get"
    /\ IF worker_queues[w] # <<>>
       THEN /\ wk' = IF pause_event /\ ~stop_event THEN wk
                     ELSE [wk EXCEPT ![w].pc = "hold",
                                     ![w].block_height = Head(worker_queues[w])]
            /\ worker_queues' = [worker_queues EXCEPT ![w] = Tail(@)]
       ELSE /\ stop_event
            /\ wk' = [wk EXCEPT ![w].pc = "stopped"]
            /\ UNCHANGED worker_queues
    /\ UNCHANGED <<config, chain, main_queue, dist, stop_event,
                   pause_event, active_workers, total_blocks_scanned, blocks_failed,
                   write_queue, batch, wpc, writer_running, failed_addresses, racing,
                   db, progress, marker, sup, cl, stdin, ap, boot, rpc, conn>>

\* worker: worker_queue.get(timeout=1.0), and the exit on an empty queue with
\* the stop event set (lines 972-984)
WorkerGet(w) ==
    /\ wk[w].pc = "get"
    /\ IF worker_queues[w] # <<>>
       THEN /\ wk' = [wk EXCEPT ![w].pc = "hold",
                                ![w].block_height = Head(worker_queues[w])]
            /\ worker_queues' = [worker_queues EXCEPT ![w] = Tail(@)]
       ELSE /\ stop_event
            /\ wk' = [wk EXCEPT ![w].pc = "stopped"]
            /\ UNCHANGED worker_queues
    /\ UNCHANGED <<config, chain, main_queue, dist, stop_event,
                   pause_event, active_workers, total_blocks_scanned, blocks_failed,
                   write_queue, batch, wpc, writer_running, failed_addresses, racing,
                   db, progress, marker, sup, cl, stdin, ap, boot, rpc, conn>>

\* the worker counting a failed block as scanned as well
WorkerFetchCountsFailures(w) ==
    /\ wk[w].pc = "hold"
    /\ ~(pause_event /\ ~stop_event)
    /\ active_workers' = active_workers \cup {w}
    /\ \E outcome \in FetchOutcomes :
         LET h == wk[w].block_height
             block_data == PipelineBlocks[chain[h]]
             skip == config.quick_scan /\ ~quick_scan_block_for_p2pk(block_data)
             events == ProcessBlock(block_data, h, NodeTxs, 1)
         IN  IF outcome = "ok"
             THEN /\ blocks_failed' = blocks_failed
                  /\ IF skip
                     THEN /\ total_blocks_scanned' = total_blocks_scanned + 1
                          /\ wk' = [wk EXCEPT ![w].pc = "skip_progress"]
                     ELSE /\ total_blocks_scanned' = total_blocks_scanned
                          /\ wk' = [wk EXCEPT
                                      ![w].pc = IF events = <<>> THEN "count"
                                                ELSE "put_address",
                                      ![w].pending = events]
             ELSE /\ blocks_failed' = blocks_failed + 1
                  /\ total_blocks_scanned' = total_blocks_scanned + 1
                  /\ wk' = [wk EXCEPT ![w].pc = IF outcome = "nothing" THEN "get"
                                                ELSE "fail_progress"]
    /\ UNCHANGED <<config, chain, main_queue, worker_queues, dist, stop_event,
                   pause_event, write_queue, batch, wpc, writer_running,
                   failed_addresses, racing, db, progress, marker, sup, cl, stdin, ap, boot, rpc, conn>>

\* worker: past the pause loop, active_workers.add, get_block_by_height, the
\* quick scan and process_transaction for every transaction (lines 986-1040,
\* 1127-1132)
WorkerFetch(w) ==
    /\ wk[w].pc = "hold"
    /\ ~(pause_event /\ ~stop_event)
    /\ active_workers' = active_workers \cup {w}
    /\ \E outcome \in FetchOutcomes :
         LET h == wk[w].block_height
             block_data == PipelineBlocks[chain[h]]
             skip == config.quick_scan /\ ~quick_scan_block_for_p2pk(block_data)
             events == ProcessBlock(block_data, h, NodeTxs, 1)
         IN  IF outcome = "ok"
             THEN /\ blocks_failed' = blocks_failed
                  /\ IF skip
                     THEN /\ total_blocks_scanned' = total_blocks_scanned + 1
                          /\ wk' = [wk EXCEPT ![w].pc = "skip_progress"]
                     ELSE /\ total_blocks_scanned' = total_blocks_scanned
                          /\ wk' = [wk EXCEPT
                                      ![w].pc = IF events = <<>> THEN "count"
                                                ELSE "put_address",
                                      ![w].pending = events]
             ELSE /\ blocks_failed' = blocks_failed + 1
                  /\ total_blocks_scanned' = total_blocks_scanned
                  /\ wk' = [wk EXCEPT ![w].pc = IF outcome = "nothing" THEN "get"
                                                ELSE "fail_progress"]
    /\ UNCHANGED <<config, chain, main_queue, worker_queues, dist, stop_event,
                   pause_event, write_queue, batch, wpc, writer_running,
                   failed_addresses, racing, db, progress, marker, sup, cl, stdin, ap, boot, rpc, conn>>

PutType(pc) == IF pc = "put_address" THEN "address"
               ELSE IF pc = "put_transaction" THEN "transaction" ELSE "block"

\* what write_queue.put(item, block=True) does to the queue; it is called
\* only when the queue has room (the put blocks until then)
QueuePut(q, item) == Append(q, item)

\* add_transaction with every put replaced by a put that gives up on a full
\* queue and drops the item
WorkerPutOrDrop(w) ==
    /\ wk[w].pc \in {"put_address", "put_transaction", "put_block"}
    /\ write_queue' = IF Len(write_queue) < config.queue_size
                      THEN QueuePut(write_queue, QueueItem(PutType(wk[w].pc), Head(wk[w].pending)))
                      ELSE write_queue
    /\ wk' = [wk EXCEPT
                ![w].pc = IF wk[w].pc = "put_address" THEN "put_transaction"
                          ELSE IF wk[w].pc = "put_transaction" THEN "put_block"
                          ELSE IF Tail(wk[w].pending) = <<>> THEN "count"
                          ELSE "put_address",
                ![w].pending = IF wk[w].pc = "put_block" THEN Tail(@) ELSE @]
    /\ UNCHANGED <<config, chain, main_queue, worker_queues, dist, stop_event,
                   pause_event, active_workers, total_blocks_scanned, blocks_failed,
                   batch, wpc, writer_running, failed_addresses, racing,
                   db, progress, marker, sup, cl, stdin, ap, boot, rpc, conn>>

\* add_transaction: one of its three blocking puts (lines 574-609)
WorkerPut(w) ==
    /\ wk[w].pc \in {"put_address", "put_transaction", "put_block"}
    /\ Len(write_queue) < config.queue_size
    /\ write_queue' = QueuePut(write_queue, QueueItem(PutType(wk[w].pc), Head(wk[w].pending)))
    /\ wk' = [wk EXCEPT
                ![w].pc = IF wk[w].pc = "put_address" THEN "put_transaction"
                          ELSE IF wk[w].pc = "put_transaction" THEN "put_block"
                          ELSE IF Tail(wk[w].pending) = <<>> THEN "count"
                          ELSE "put_address",
                ![w].pending = IF wk[w].pc = "put_block" THEN Tail(@) ELSE @]
    /\ UNCHANGED <<config, chain, main_queue, worker_queues, dist, stop_event,
                   pause_event, active_workers, total_blocks_scanned, blocks_failed,
                   batch, wpc, writer_running, failed_addresses, racing,
                   db, progress, marker, sup, cl, stdin, ap, boot, rpc, conn>>

\* worker: total_blocks_scanned += 1 under blocks_scanned_lock (line 1169)
WorkerCount(w) ==
    /\ wk[w].pc = "count"
    /\ total_blocks_scanned' = total_blocks_scanned + 1
    /\ wk' = [wk EXCEPT ![w].pc = "progress"]
    /\ UNCHANGED <<config, chain, main_queue, worker_queues, dist, stop_event,
                   pause_event, active_workers, blocks_failed,
                   write_queue, batch, wpc, writer_running, failed_addresses, racing,
                   db, progress, marker, sup, cl, stdin, ap, boot, rpc, conn>>

\* worker: update_scan_progress(db_manager.db_manager, block_height) on the
\* success path (line 1173, then the processed-block marker, task_done and
\* active_workers.discard), on the quick-scan skip path (line 1034, then
\* "continue") and on the failure path (line 1210, then task_done and discard)
WorkerProgress(w) ==
    /\ wk[w].pc \in {"progress", "skip_progress", "fail_progress"}
    /\ progress' = update_scan_progress(progress, wk[w].block_height, 1)
    /\ marker' = IF wk[w].pc = "progress"
                 THEN [last_scanned_block |-> wk[w].block_height,
                       total_blocks_scanned |-> marker.total_blocks_scanned + 1]
                 ELSE marker
    /\ active_workers' = IF wk[w].pc = "skip_progress" THEN active_workers
                         ELSE active_workers \ {w}
    /\ wk' = [wk EXCEPT ![w].pc = "get"]
    /\ UNCHANGED <<config, chain, main_queue, worker_queues, dist, stop_event,
                   pause_event, total_blocks_scanned, blocks_failed,
                   write_queue, batch, wpc, writer_running, failed_addresses, racing,
                   db, sup, cl, stdin, ap, boot, rpc, conn>>

\* ------------------------------------------------------------------ writer

\* what the database does to the address inserts of one flush: the keys it
\* refuses (among FaultyKeys) and the way the refusal shows
FaultyKeys == {"kA"}
FlushFaults == IF config.db_faults
               THEN (SUBSET FaultyKeys) \X {"none", "raise"}
               ELSE {<<{}, "none">>}

\* what the database does to the two dependent bulk inserts of one flush
RowFaults == IF config.row_faults THEN {"none", "transactions", "blocks"}
             ELSE {"none"}

\* _writer_loop: one turn of the loop up to the flush decision (lines
\* 220-234).  timed_out says whether more than 2.0 s passed since last_flush.
WriterGet ==
    /\ wpc = "get"
    /\ writer_running
    /\ \E timed_out \in BOOLEAN :
         IF write_queue # <<>>
         THEN /\ batch' = Append(batch, Head(write_queue))
              /\ write_queue' = Tail(write_queue)
              /\ wpc' = IF Len(batch) + 1 >= config.batch_size \/ timed_out
                        THEN "flush" ELSE "get"
         ELSE /\ UNCHANGED <<batch, write_queue>>
              /\ wpc' = IF batch # <<>> /\ timed_out THEN "flush" ELSE "get"
    /\ UNCHANGED <<config, chain, main_queue, worker_queues, dist, wk, stop_event,
                   pause_event, active_workers, total_blocks_scanned, blocks_failed,
                   writer_running, failed_addresses, racing,
                   db, progress, marker, sup, cl, stdin, ap, boot, rpc, conn>>

\* _writer_loop: self._flush_batch(batch); batch.clear() (lines 236-238)
WriterFlush ==
    /\ wpc = "flush"
    /\ \E f \in FlushFaults, g \in RowFaults :
         LET r == FlushBatch(batch, failed_addresses, db, racing, f[1], f[2], g) IN
         /\ db' = r.db
         /\ failed_addresses' = r.failed
    /\ batch' = <<>>
    /\ racing' = {}
    /\ wpc' = "get"
    /\ UNCHANGED <<config, chain, main_queue, worker_queues, dist, wk, stop_event,
                   pause_event, active_workers, total_blocks_scanned, blocks_failed,
                   write_queue, writer_running, progress, marker, sup, cl, stdin, ap, boot, rpc, conn>>

\* _writer_loop: the loop condition fails; final flush of the remaining
\* items (lines 244-246)
WriterExit ==
    /\ wpc = "get"
    /\ ~writer_running
    /\ \E f \in FlushFaults, g \in RowFaults :
         LET r == FlushBatch(batch, failed_addresses, db, racing, f[1], f[2], g) IN
         /\ db' = r.db
         /\ failed_addresses' = r.failed
    /\ racing' = {}
    /\ wpc' = "stopped"
    /\ UNCHANGED <<config, chain, main_queue, worker_queues, dist, wk, stop_event,
                   pause_event, active_workers, total_blocks_scanned, blocks_failed,
                   write_queue, batch, writer_running, progress, marker, sup, cl, stdin, ap, boot, rpc, conn>>

\* Another writer of p2pk_addresses (scanner.py save_p2pk_transaction, or
\* shutdown()'s flush in the main thread) commits a row for key k while a
\* flush of the writer thread is between its SELECT and its INSERT for k.
ConcurrentInsert(k, h) ==
    /\ wpc = "flush"
    /\ db.addrs[k] = NoRow
    /\ k \in {batch[i].address_key : i \in {j \in 1..Len(batch) : batch[j].type = "address"}}
    /\ db' = [db EXCEPT !.addrs[k] = [id |-> db.next_id, last_seen_block |-> h],
                        !.next_id = @ + 1]
    /\ racing' = racing \cup {k}
    /\ UNCHANGED <<config, chain, main_queue, worker_queues, dist, wk, stop_event,
                   pause_event, active_workers, total_blocks_scanned, blocks_failed,
                   write_queue, batch, wpc, writer_running, failed_addresses,
                   progress, marker, sup, cl, stdin, ap, boot, rpc, conn>>

\* -------------------------------------------------------------- supervisor

\* check_auto_pause without its resume branch
check_auto_pause_never_resumes(paused, queue_depth) ==
    IF ~config.auto_pause_enabled THEN paused
    ELSE IF queue_depth > config.auto_pause_threshold /\ ~paused THEN TRUE
    ELSE paused

\* check_auto_pause pausing at the threshold itself
check_auto_pause_inclusive(paused, queue_depth) ==
    IF ~config.auto_pause_enabled THEN paused
    ELSE IF queue_depth >= config.auto_pause_threshold /\ ~paused THEN TRUE
    ELSE IF queue_depth < config.auto_resume_threshold /\ paused THEN FALSE
    ELSE paused

\* check_auto_pause(db_manager): the new value of pause_event
check_auto_pause(paused, queue_depth) ==
    IF ~config.auto_pause_enabled THEN paused
    ELSE IF queue_depth > config.auto_pause_threshold /\ ~paused THEN TRUE
    ELSE IF queue_depth < config.auto_resume_threshold /\ paused THEN FALSE
    ELSE paused

\* check_auto_pause(db_manager): the value it returns (lines 129-147)
check_auto_pause_returns(paused, queue_depth) ==
    IF ~config.auto_pause_enabled THEN FALSE
    ELSE IF queue_depth > config.auto_pause_threshold /\ ~paused THEN TRUE
    ELSE IF queue_depth < config.auto_resume_threshold /\ paused THEN TRUE
    ELSE FALSE

\* one call of check_auto_pause(db_manager), as test_auto_pause.py makes it:
\* the flag before the call, the depth it read and its result are recorded
AutoPauseCall ==
    /\ ~ap.called
    /\ pause_event' = check_auto_pause(pause_event, Len(write_queue))
    /\ ap' = [queue_depth |-> Len(write_queue), before |-> pause_event,
              ret |-> check_auto_pause_returns(pause_event, Len(write_queue)),
              called |-> TRUE]
    /\ UNCHANGED <<config, chain, main_queue, worker_queues, dist, wk, stop_event,
                   active_workers, total_blocks_scanned, blocks_failed,
                   write_queue, batch, wpc, writer_running, failed_addresses, racing,
                   db, progress, marker, sup, cl, stdin, boot, rpc, conn>>

total_blocks_to_scan == config.end_block - config.start_block + 1

\* _main: one turn of the monitoring loop (lines 1687-1746).  report says
\* whether report_interval has passed since last_report.
SupMonitor ==
    /\ sup.pc = "monitor"
    /\ \E report \in BOOLEAN :
         LET all_workers_done == \A w \in Workers : wk[w].pc = "stopped"
             main_queue_empty == main_queue = <<>>
             distributor_done == dist.pc = "done"
             scanned == total_blocks_scanned
             current_block_number == config.start_block + scanned
         IN  IF stop_event
                \/ (all_workers_done /\ main_queue_empty /\ distributor_done)
                \/ scanned >= total_blocks_to_scan
             THEN /\ sup' = [sup EXCEPT !.pc = "wait_work"]
                  /\ UNCHANGED <<pause_event, progress>>
             ELSE /\ pause_event' = check_auto_pause(pause_event, Len(write_queue))
                  /\ IF report /\ current_block_number - sup.last_progress_update
                                     >= config.progress_interval
                     THEN /\ progress' = update_scan_progress(progress, current_block_number,
                                  current_block_number - sup.last_progress_update)
                          /\ sup' = [sup EXCEPT !.last_progress_update = current_block_number]
                     ELSE UNCHANGED <<progress, sup>>
    /\ UNCHANGED <<config, chain, main_queue, worker_queues, dist, wk, stop_event,
                   active_workers, total_blocks_scanned, blocks_failed,
                   write_queue, batch, wpc, writer_running, failed_addresses, racing,
                   db, marker, cl, stdin, ap, boot, rpc, conn>>

\* _main: the two waits of the graceful shutdown (lines 1760-1812); each ends
\* when its condition holds or when its max_wait_time has passed
SupWait ==
    /\ sup.pc \in {"wait_work", "wait_workers"}
    /\ sup' = [sup EXCEPT !.pc = IF sup.pc = "wait_work" THEN "wait_workers"
                                 ELSE "final_update"]
    /\ UNCHANGED <<config, chain, main_queue, worker_queues, dist, wk, stop_event,
                   pause_event, active_workers, total_blocks_scanned, blocks_failed,
                   write_queue, batch, wpc, writer_running, failed_addresses, racing,
                   db, progress, marker, cl, stdin, ap, boot, rpc, conn>>

\* _main: "Final progress update before database shutdown" (lines 1817-1822)
SupFinalUpdate ==
    /\ sup.pc = "final_update"
    /\ LET final_scanned == total_blocks_scanned
           final_block_number == config.start_block + final_scanned
       IN  progress' = update_scan_progress(progress, final_block_number, final_scanned)
    /\ sup' = [sup EXCEPT !.pc = "db_shutdown"]
    /\ UNCHANGED <<config, chain, main_queue, worker_queues, dist, wk, stop_event,
                   pause_event, active_workers, total_blocks_scanned, blocks_failed,
                   write_queue, batch, wpc, writer_running, failed_addresses, racing,
                   db, marker, cl, stdin, ap, boot, rpc, conn>>

\* shutdown(): self.writer_running = False (line 628)
SupDbShutdown ==
    /\ sup.pc = "db_shutdown"
    /\ writer_running' = FALSE
    /\ sup' = [sup EXCEPT !.pc = "db_join"]
    /\ UNCHANGED <<config, chain, main_queue, worker_queues, dist, wk, stop_event,
                   pause_event, active_workers, total_blocks_scanned, blocks_failed,
                   write_queue, batch, wpc, failed_addresses, racing,
                   db, progress, marker, cl, stdin, ap, boot, rpc, conn>>

\* shutdown(): writer_thread.join(timeout=10) returns, because the writer
\* thread ended or because the 10 s passed; then the queue is drained with
\* get_nowait and the remaining items are flushed in the calling thread
\* (lines 629-642)
SupDbDrain ==
    /\ sup.pc = "db_join"
    /\ wpc = "stopped" \/ config.join_expires
    /\ \E f \in FlushFaults, g \in RowFaults :
         LET r == FlushBatch(write_queue, failed_addresses, db, {}, f[1], f[2], g) IN
         /\ db' = r.db
         /\ failed_addresses' = r.failed
    /\ write_queue' = <<>>
    /\ sup' = [sup EXCEPT !.pc = "done"]
    /\ UNCHANGED <<config, chain, main_queue, worker_queues, dist, wk, stop_event,
                   pause_event, active_workers, total_blocks_scanned, blocks_failed,
                   batch, wpc, writer_running, racing, progress, marker, cl, stdin, ap, boot, rpc, conn>>

(***************************************************************************)
(* Part 4.  Initial states and specifications                              *)
(***************************************************************************)

\* the scan range: get_scan_progress returned 0, so start_block is 1
FirstBlock == 1
LastBlock == 4

\* argparse defaults of main(), with the numbers scaled to the scan range
DefaultConfig ==
    [threads |-> 1, batch_size |-> 12, queue_size |-> 2, target_depth |-> 4,
     quick_scan |-> FALSE, rpc_faults |-> FALSE, db_faults |-> FALSE,
     row_faults |-> FALSE,
     auto_pause_enabled |-> TRUE, auto_pause_threshold |-> 5,
     auto_resume_threshold |-> 1, progress_interval |-> 100,
     join_expires |-> FALSE,
     start_block |-> FirstBlock, end_block |-> LastBlock]

\* the block every height of an idle pipeline holds
IdleChain == [h \in FirstBlock..LastBlock |-> 3]

\* the classifier specification's variable while the pipeline runs
IdleCl == [block_data |-> TestBlock(<<3>>, 1), done |-> {}, quick |-> FALSE,
           keys |-> <<>>, ev_quick |-> <<>>, ev_full |-> <<>>]

\* no call of _make_request in progress
IdleRpc == [pc |-> "idle", answers |-> <<>>, attempt |-> 0, requests |-> 0,
            sleeps |-> 0]

\* an argument that was not given on the command line (argparse's None)
\* the one connection of the DatabaseManager made at line 161: no statement
\* executed yet; wpc is the writer's position in a bulk insert
IdleConn == [uncommitted |-> {}, committed |-> {}, wpc |-> "idle",
             flushes |-> 0, commands |-> 0]

NoArg == 0 - 1

\* what _main read before the pipeline started, once it is running
IdleBoot == [reset |-> FALSE, start_block |-> NoArg, end_block |-> NoArg,
             current_height |-> LastBlock, original_last_scanned_block |-> 0]

\* the auto-pause specification's variable while the pipeline runs
IdleAp == [queue_depth |-> 0, before |-> FALSE, ret |-> FALSE, called |-> FALSE]

\* The state _main has built when its threads start (lines 1640-1685):
\* HydraModeDatabaseManager(), the filled main queue, empty worker queues
PipelineInit(cfg, ch) ==
    /\ config = cfg
    /\ chain = ch
    /\ main_queue = [i \in 1..(cfg.end_block - cfg.start_block + 1) |-> cfg.start_block + i - 1]
    /\ worker_queues = [w \in 1..cfg.threads |-> <<>>]
    /\ dist = [pc |-> "check", i |-> 1, depth |-> 0, hand |-> 0]
    /\ wk = [w \in 1..cfg.threads |-> [pc |-> "get", block_height |-> 0, pending |-> <<>>]]
    /\ stop_event = FALSE
    /\ pause_event = FALSE
    /\ active_workers = {}
    /\ total_blocks_scanned = 0
    /\ blocks_failed = 0
    /\ write_queue = <<>>
    /\ batch = <<>>
    /\ wpc = "get"
    /\ writer_running = TRUE
    /\ failed_addresses = <<>>
    /\ racing = {}
    /\ db = [addrs |-> [k \in AddressKeys |-> NoRow], next_id |-> 1, txs |-> {}, blks |-> {}]
    /\ progress = [last_scanned_block |-> cfg.start_block - 1, total_blocks_scanned |-> 0]
    /\ marker = [last_scanned_block |-> 0, total_blocks_scanned |-> 0]
    /\ sup = [pc |-> "monitor", last_progress_update |-> cfg.start_block]

NextPipe ==
    \/ DistCheck
    \/ DistFill
    \/ \E w \in Workers : WorkerGet(w)
    \/ \E w \in Workers : WorkerFetch(w)
    \/ \E w \in Workers : WorkerPut(w)
    \/ \E w \in Workers : WorkerCount(w)
    \/ \E w \in Workers : WorkerProgress(w)
    \/ WriterGet
    \/ WriterFlush
    \/ WriterExit
    \/ SupMonitor
    \/ SupWait
    \/ SupFinalUpdate
    \/ SupDbShutdown
    \/ SupDbDrain

\* ---- one worker, a database that may refuse address inserts, every batch
\* ---- size and every placement of the timeout flushes
FlushBatchSizes == {2, 12}
FlushChains == {<<1, 1, 1, 2>>, <<2, 1, 3>>}

Init ==
    /\ \E b \in FlushBatchSizes, c \in FlushChains :
         PipelineInit([DefaultConfig EXCEPT !.batch_size = b, !.db_faults = TRUE,
                                            !.end_block = Len(c)], c)
    /\ cl = IdleCl
    /\ stdin = <<>>
    /\ ap = IdleAp
    /\ boot = IdleBoot
    /\ rpc = IdleRpc
    /\ conn = IdleConn

Next == NextPipe

Spec == Init /\ [][Next]_vars

\* ---- two workers fed one block at a time, a database that accepts every
\* ---- insert, the supervisor's periodic update every ScanProgressInterval
\* ---- blocks
ScanProgressInterval == 2
ScanChains == {<<1, 3, 2>>, <<3, 4, 3>>}

InitScan ==
    /\ \E c \in ScanChains :
         PipelineInit([DefaultConfig EXCEPT !.threads = 2, !.target_depth = 1,
                                            !.batch_size = 3,
                                            !.progress_interval = ScanProgressInterval,
                                            !.end_block = Len(c)], c)
    /\ cl = IdleCl
    /\ stdin = <<>>
    /\ ap = IdleAp
    /\ boot = IdleBoot
    /\ rpc = IdleRpc
    /\ conn = IdleConn

SpecScan == InitScan /\ [][NextPipe]_vars

\* ---- one worker and a second writer of p2pk_addresses
RaceChains == {<<1, 1>>, <<2, 1>>}

InitRace ==
    /\ \E c \in RaceChains :
         PipelineInit([DefaultConfig EXCEPT !.batch_size = 3, !.db_faults = TRUE,
                                            !.end_block = Len(c)], c)
    /\ cl = IdleCl
    /\ stdin = <<>>
    /\ ap = IdleAp
    /\ boot = IdleBoot
    /\ rpc = IdleRpc
    /\ conn = IdleConn

NextRace ==
    \/ NextPipe
    \/ \E k \in AddressKeys, h \in Heights : ConcurrentInsert(k, h)

SpecRace == InitRace /\ [][NextRace]_vars

\* ---- a write queue of capacity 1, one or two workers, a database that
\* ---- accepts every insert; every thread keeps being scheduled
SatThreads == {1, 2}
SatChains == {<<1, 2>>}

InitSat ==
    /\ \E t \in SatThreads, c \in SatChains, j \in BOOLEAN :
         PipelineInit([DefaultConfig EXCEPT !.threads = t, !.queue_size = 1,
                                            !.batch_size = 2, !.target_depth = 1,
                                            !.join_expires = j,
                                            !.end_block = Len(c)], c)
    /\ cl = IdleCl
    /\ stdin = <<>>
    /\ ap = IdleAp
    /\ boot = IdleBoot
    /\ rpc = IdleRpc
    /\ conn = IdleConn

\* every thread that can take a step is eventually scheduled: the
\* distributor, the workers, the writer thread and the main thread
FairPipe ==
    /\ WF_vars(DistCheck \/ DistFill)
    /\ WF_vars(\E w \in Workers : \/ WorkerGet(w) \/ WorkerFetch(w) \/ WorkerPut(w)
                                  \/ WorkerCount(w) \/ WorkerProgress(w))
    /\ WF_vars(WriterGet \/ WriterFlush \/ WriterExit)
    /\ WF_vars(SupMonitor \/ SupWait \/ SupFinalUpdate \/ SupDbShutdown \/ SupDbDrain)

SpecSat == InitSat /\ [][NextPipe]_vars /\ FairPipe

\* ---- an operator at the keyboard: two workers fed one block at a time,
\* ---- the distributor's get and put as separate steps, and the lines the
\* ---- operator types.  The write queue never holds more than queue_size = 2
\* ---- items, so the controller (threshold 5) never sets the pause event.
StopChains == {<<1, 3>>}
StopInputs == {<<"q">>, <<"p", "q">>, <<"p", "p", "s">>}

NextStop ==
    \/ DistCheck
    \/ DistGet
    \/ DistPut
    \/ keyboard_listener
    \/ \E w \in Workers : WorkerGet(w)
    \/ \E w \in Workers : WorkerFetch(w)
    \/ \E w \in Workers : WorkerPut(w)
    \/ \E w \in Workers : WorkerCount(w)
    \/ \E w \in Workers : WorkerProgress(w)
    \/ WriterGet
    \/ WriterFlush
    \/ WriterExit
    \/ SupMonitor
    \/ SupWait
    \/ SupFinalUpdate
    \/ SupDbShutdown
    \/ SupDbDrain

InitStop ==
    /\ \E c \in StopChains :
         PipelineInit([DefaultConfig EXCEPT !.threads = 2, !.target_depth = 1,
                                            !.batch_size = 3,
                                            !.end_block = Len(c)], c)
    /\ cl = IdleCl
    /\ stdin \in StopInputs
    /\ ap = IdleAp
    /\ boot = IdleBoot
    /\ rpc = IdleRpc
    /\ conn = IdleConn

SpecStop == InitStop /\ [][NextStop]_vars

\* the distributor thread keeps being scheduled: its get has a timeout, its
\* put does not block and its sleeps end (lines 1263, 1273-1274, 1293)
FairDistributor == WF_vars(DistCheck \/ DistGet \/ DistPut)

SpecStopFair == InitStop /\ [][NextStop]_vars /\ FairDistributor

\* ---- the same threads with a node that may fail, worker queues topped up
\* ---- to two heights, and an operator who may stop the run
ConserveChains == {<<1, 3>>}
ConserveInputs == {<<>>, <<"q">>}

InitConserve ==
    /\ \E c \in ConserveChains :
         PipelineInit([DefaultConfig EXCEPT !.threads = 2, !.target_depth = 2,
                                            !.batch_size = 3, !.rpc_faults = TRUE,
                                            !.end_block = Len(c)], c)
    /\ cl = IdleCl
    /\ stdin \in ConserveInputs
    /\ ap = IdleAp
    /\ boot = IdleBoot
    /\ rpc = IdleRpc
    /\ conn = IdleConn

SpecConserve == InitConserve /\ [][NextStop]_vars

\* ---- more heights than the worker queues may hold: two workers, worker
\* ---- queues topped up to two heights, three heights to distribute
DepthChains == {<<1, 3, 1>>}

InitDepth ==
    /\ \E c \in DepthChains :
         PipelineInit([DefaultConfig EXCEPT !.threads = 2, !.target_depth = 2,
                                            !.batch_size = 3,
                                            !.end_block = Len(c)], c)
    /\ cl = IdleCl
    /\ stdin = <<>>
    /\ ap = IdleAp
    /\ boot = IdleBoot
    /\ rpc = IdleRpc
    /\ conn = IdleConn

SpecDepth == InitDepth /\ [][NextPipe]_vars

\* ---- a node whose get_block_by_height may return nothing or raise, one
\* ---- or two workers, no operator; every thread keeps being scheduled
FailThreads == {1, 2}
FailChains == {<<1, 3>>}

InitFail ==
    /\ \E t \in FailThreads, c \in FailChains :
         PipelineInit([DefaultConfig EXCEPT !.threads = t, !.target_depth = 1,
                                            !.batch_size = 3, !.rpc_faults = TRUE,
                                            !.end_block = Len(c)], c)
    /\ cl = IdleCl
    /\ stdin = <<>>
    /\ ap = IdleAp
    /\ boot = IdleBoot
    /\ rpc = IdleRpc
    /\ conn = IdleConn

SpecFail == InitFail /\ [][NextPipe]_vars /\ FairPipe

\* ---- a write queue of capacity 4 with the controller's thresholds inside
\* ---- it (pause above 2, resume below 1), one or two workers, no operator;
\* ---- every thread keeps being scheduled
PauseThreads == {1, 2}
PauseChains == {<<1, 3>>, <<3, 1>>}

InitPause ==
    /\ \E t \in PauseThreads, c \in PauseChains :
         PipelineInit([DefaultConfig EXCEPT !.threads = t, !.target_depth = 1,
                                            !.batch_size = 3, !.queue_size = 4,
                                            !.auto_pause_threshold = 2,
                                            !.end_block = Len(c)], c)
    /\ cl = IdleCl
    /\ stdin = <<>>
    /\ ap = IdleAp
    /\ boot = IdleBoot
    /\ rpc = IdleRpc
    /\ conn = IdleConn

SpecPause == InitPause /\ [][NextPipe]_vars /\ FairPipe

\* ---- check_auto_pause alone: every setting of the switch, thresholds
\* ---- around each other, every queue depth up to ApMaxDepth and both values
\* ---- of the flag
ApMaxDepth == 4
ApPauseThresholds == {2, 3}
ApResumeThresholds == {1, 2}

InitAutoPause ==
    /\ \E e \in BOOLEAN, hi \in ApPauseThresholds, lo \in ApResumeThresholds :
         config = [DefaultConfig EXCEPT !.auto_pause_enabled = e,
                                        !.auto_pause_threshold = hi,
                                        !.auto_resume_threshold = lo,
                                        !.queue_size = ApMaxDepth]
    /\ chain = IdleChain
    /\ main_queue = <<>>
    /\ worker_queues = [w \in 1..DefaultConfig.threads |-> <<>>]
    /\ dist = [pc |-> "check", i |-> 1, depth |-> 0, hand |-> 0]
    /\ wk = [w \in 1..DefaultConfig.threads |->
                [pc |-> "get", block_height |-> 0, pending |-> <<>>]]
    /\ stop_event = FALSE
    /\ pause_event \in BOOLEAN
    /\ active_workers = {}
    /\ total_blocks_scanned = 0
    /\ blocks_failed = 0
    /\ \E d \in 0..ApMaxDepth :
         write_queue = [i \in 1..d |->
                           QueueItem("block", P2pkEvent("t", FirstBlock, Key04, FALSE))]
    /\ batch = <<>>
    /\ wpc = "get"
    /\ writer_running = TRUE
    /\ failed_addresses = <<>>
    /\ racing = {}
    /\ db = [addrs |-> [k \in AddressKeys |-> NoRow], next_id |-> 1, txs |-> {}, blks |-> {}]
    /\ progress = [last_scanned_block |-> FirstBlock - 1, total_blocks_scanned |-> 0]
    /\ marker = [last_scanned_block |-> 0, total_blocks_scanned |-> 0]
    /\ sup = [pc |-> "monitor", last_progress_update |-> FirstBlock]
    /\ cl = IdleCl
    /\ stdin = <<>>
    /\ ap = IdleAp
    /\ boot = IdleBoot
    /\ rpc = IdleRpc
    /\ conn = IdleConn

NextAutoPause == AutoPauseCall

SpecAutoPause == InitAutoPause /\ [][NextAutoPause]_vars

\* ---- _main up to the start of the threads: every combination of --reset,
\* ---- --start-block, --end-block, chain height and stored progress

\* get_scan_progress(db_manager): the other scanner's row if it is positive,
\* else this scanner's row if it is positive, else 0 (lines 663-685)
get_scan_progress(original_row, hydra_row) ==
    IF original_row > 0 THEN original_row
    ELSE IF hydra_row > 0 THEN hydra_row
    ELSE 0

\* _main: "Determine scan range" (lines 1617-1629)
StartBlockOf(args, last_scanned_block) ==
    IF args.reset
    THEN (IF args.start_block # NoArg THEN args.start_block ELSE 0)
    ELSE IF args.start_block # NoArg THEN args.start_block
    ELSE last_scanned_block + 1

EndBlockOf(args) ==
    IF args.end_block # NoArg THEN args.end_block ELSE args.current_height

\* _main: from "Determine scan range" to the start of the threads: the
\* return on start_block >= end_block, or the filled main queue
\* (lines 1617-1685)
Startup ==
    /\ sup.pc = "startup"
    /\ LET start_block == StartBlockOf(boot, get_scan_progress(
                              boot.original_last_scanned_block,
                              progress.last_scanned_block))
           end_block == EndBlockOf(boot)
       IN  IF start_block >= end_block
           THEN /\ sup' = [sup EXCEPT !.pc = "returned"]
                /\ UNCHANGED <<config, main_queue>>
           ELSE /\ config' = [config EXCEPT !.start_block = start_block,
                                            !.end_block = end_block]
                /\ main_queue' = [i \in 1..(end_block - start_block + 1) |->
                                     start_block + i - 1]
                /\ sup' = [pc |-> "monitor", last_progress_update |-> start_block]
    /\ UNCHANGED <<chain, worker_queues, dist, wk, stop_event,
                   pause_event, active_workers, total_blocks_scanned, blocks_failed,
                   write_queue, batch, wpc, writer_running, failed_addresses, racing,
                   db, progress, marker, cl, stdin, ap, boot, rpc, conn>>

BootMaxHeight == 4
BootStartArgs == {NoArg, 0, 2}
BootEndArgs == {NoArg, 1, 3}

InitStartup ==
    /\ config = DefaultConfig
    /\ chain = IdleChain
    /\ main_queue = <<>>
    /\ worker_queues = [w \in 1..DefaultConfig.threads |-> <<>>]
    /\ dist = [pc |-> "check", i |-> 1, depth |-> 0, hand |-> 0]
    /\ wk = [w \in 1..DefaultConfig.threads |->
                [pc |-> "get", block_height |-> 0, pending |-> <<>>]]
    /\ stop_event = FALSE
    /\ pause_event = FALSE
    /\ active_workers = {}
    /\ total_blocks_scanned = 0
    /\ blocks_failed = 0
    /\ write_queue = <<>>
    /\ batch = <<>>
    /\ wpc = "get"
    /\ writer_running = TRUE
    /\ failed_addresses = <<>>
    /\ racing = {}
    /\ db = [addrs |-> [k \in AddressKeys |-> NoRow], next_id |-> 1, txs |-> {}, blks |-> {}]
    /\ \E last \in 0..BootMaxHeight :
         progress = [last_scanned_block |-> last, total_blocks_scanned |-> last]
    /\ marker = [last_scanned_block |-> 0, total_blocks_scanned |-> 0]
    /\ sup = [pc |-> "startup", last_progress_update |-> 0]
    /\ cl = IdleCl
    /\ stdin = <<>>
    /\ ap = IdleAp
    /\ \E r \in BOOLEAN, sb \in BootStartArgs, eb \in BootEndArgs,
          ch \in (BootMaxHeight - 1)..BootMaxHeight, orig \in 0..1 :
         boot = [reset |-> r, start_block |-> sb, end_block |-> eb,
                 current_height |-> ch, original_last_scanned_block |-> orig]
    /\ rpc = IdleRpc
    /\ conn = IdleConn

NextStartup == Startup

SpecStartup == InitStartup /\ [][NextStartup]_vars

\* ---- one worker, a database that accepts every address but may refuse
\* ---- the transaction rows or the block rows of a flush
RowsBatchSizes == {3, 12}
RowsChains == {<<1, 2>>}

InitRows ==
    /\ \E b \in RowsBatchSizes, c \in RowsChains :
         PipelineInit([DefaultConfig EXCEPT !.batch_size = b, !.row_faults = TRUE,
                                            !.end_block = Len(c)], c)
    /\ cl = IdleCl
    /\ stdin = <<>>
    /\ ap = IdleAp
    /\ boot = IdleBoot
    /\ rpc = IdleRpc
    /\ conn = IdleConn

SpecRows == InitRows /\ [][NextPipe]_vars

\* ---- BitcoinRPC._make_request alone: one call, and every sequence of
\* ---- answers the node can give to its requests

\* utils/config.py: MAX_RETRIES = int(os.getenv('MAX_RETRIES', '3'))
MAX_RETRIES == 3

\* what one session.post can come to:
\*   "ok"         a 200 response carrying a result
\*   "http_auth"  a 401 or 403 response: raise_for_status() raises
\*                requests.exceptions.HTTPError, a RequestException
\*   "transport"  ConnectionError or Timeout, both RequestException
\*   "rpc_error"  a 200 response with an error member or without result: a
\*                plain Exception, which "except RequestException" lets through
RpcAnswers == {"ok", "http_auth", "transport", "rpc_error"}

\* _make_request: one turn of "for attempt in range(config.MAX_RETRIES)"
\* (lines 68-95)
MakeRequestAttempt ==
    /\ rpc.pc = "loop"
    /\ rpc.attempt < MAX_RETRIES
    /\ LET answer == rpc.answers[rpc.attempt + 1]
           posted == [rpc EXCEPT !.requests = @ + 1]
       IN  rpc' = IF answer = "ok" THEN [posted EXCEPT !.pc = "returned"]
                  ELSE IF answer = "rpc_error" THEN [posted EXCEPT !.pc = "raised"]
                  ELSE IF rpc.attempt < MAX_RETRIES - 1
                  THEN [posted EXCEPT !.sleeps = @ + 1, !.attempt = @ + 1]
                  ELSE [posted EXCEPT !.pc = "raised"]
    /\ UNCHANGED <<pipeVars, cl, ap, conn>>

InitRpc ==
    /\ PipelineInit(DefaultConfig, IdleChain)
    /\ cl = IdleCl
    /\ stdin = <<>>
    /\ ap = IdleAp
    /\ boot = IdleBoot
    /\ \E a \in [1..MAX_RETRIES -> RpcAnswers] :
         rpc = [pc |-> "loop", answers |-> a, attempt |-> 0, requests |-> 0,
                sleeps |-> 0]
    /\ conn = IdleConn

NextRpc == MakeRequestAttempt

SpecRpc == InitRpc /\ [][NextRpc]_vars

\* ---- the database connection: the writer's bulk inserts and the
\* ---- execute_command calls of the workers and of the main thread all run
\* ---- on the connection of the one DatabaseManager (line 161;
\* ---- utils/database.py lines 48-55, autocommit off), whose commit and
\* ---- rollback end the one open transaction of that connection
ConnMaxFlushes == 2
ConnMaxCommands == 3
ConnCallers == {"worker", "supervisor"}

\* _bulk_insert_transactions / _bulk_insert_blocks: cursor.executemany on
\* the shared connection (lines 514-515, 539-540)
BulkInsertExecutemany ==
    /\ conn.wpc = "idle"
    /\ conn.flushes < ConnMaxFlushes
    /\ \E raised \in BOOLEAN :
         conn' = IF raised
                 THEN [conn EXCEPT !.wpc = "raised", !.flushes = @ + 1]
                 ELSE [conn EXCEPT !.wpc = "executed", !.flushes = @ + 1,
                                   !.uncommitted = @ \cup {[by |-> "writer",
                                                            n |-> conn.flushes + 1]}]
    /\ UNCHANGED <<pipeVars, cl, ap, rpc>>

\* _bulk_insert_transactions / _bulk_insert_blocks:
\* self.db_manager.connection.commit() (lines 516, 541)
BulkInsertCommit ==
    /\ conn.wpc = "executed"
    /\ conn' = [conn EXCEPT !.committed = @ \cup conn.uncommitted,
                            !.uncommitted = {}, !.wpc = "idle"]
    /\ UNCHANGED <<pipeVars, cl, ap, rpc>>

\* _bulk_insert_transactions / _bulk_insert_blocks: the except branch,
\* self.db_manager.connection.rollback() (lines 527-529, 552-554)
BulkInsertRollback ==
    /\ conn.wpc = "raised"
    /\ conn' = [conn EXCEPT !.uncommitted = {}, !.wpc = "idle"]
    /\ UNCHANGED <<pipeVars, cl, ap, rpc>>

\* DatabaseManager.execute_command through get_cursor (utils/database.py
\* lines 63-95), as called by update_scan_progress and by the worker's
\* processed-block marker: the statement and self.connection.commit(), or
\* self.connection.rollback() when the statement raises
execute_command(who) ==
    /\ conn.commands < ConnMaxCommands
    /\ \E raised \in BOOLEAN :
         conn' = IF raised
                 THEN [conn EXCEPT !.uncommitted = {}, !.commands = @ + 1]
                 ELSE [conn EXCEPT !.committed = @ \cup conn.uncommitted
                                        \cup {[by |-> who, n |-> conn.commands + 1]},
                                   !.uncommitted = {}, !.commands = @ + 1]
    /\ UNCHANGED <<pipeVars, cl, ap, rpc>>

InitConn ==
    /\ PipelineInit(DefaultConfig, IdleChain)
    /\ cl = IdleCl
    /\ stdin = <<>>
    /\ ap = IdleAp
    /\ boot = IdleBoot
    /\ rpc = IdleRpc
    /\ conn = IdleConn

NextConn ==
    \/ BulkInsertExecutemany
    \/ BulkInsertCommit
    \/ BulkInsertRollback
    \/ \E who \in ConnCallers : execute_command(who)

SpecConn == InitConn /\ [][NextConn]_vars

(***************************************************************************)
(* Part 5.  The properties                                                 *)
(***************************************************************************)

AddressIds == {db.addrs[k].id : k \in {a \in AddressKeys : db.addrs[a] # NoRow}}

\* C1: every row of p2pk_transactions and p2pk_address_blocks carries the id
\* of a committed p2pk_addresses row, never the placeholder 0 and never NULL,
\* wherever the batch boundaries fall.
C1_NoOrphanRows ==
    \A r \in db.txs \cup db.blks :
        /\ r.address_id # NullId
        /\ r.address_id # PlaceholderId
        /\ r.address_id \in AddressIds

\* an event the writer took from the queue is, in the next state, still in
\* the batch or the retry map, or committed, or the writer has halted
KeptNext(it) ==
    \/ \E i \in 1..Len(batch') : batch'[i] = it
    \/ /\ it.type = "address"
       /\ \/ \E i \in 1..Len(failed_addresses') :
                failed_addresses'[i].address_key = it.address_key
          \/ db'.addrs[it.address_key] # NoRow
    \/ /\ it.type = "transaction"
       /\ \E r \in db'.txs : r.txid = it.txid /\ r.block_height = it.block_height
                             /\ r.is_input = it.is_input
    \/ /\ it.type = "block"
       /\ \E r \in db'.blks : r.txid = it.txid /\ r.block_height = it.block_height
                              /\ r.is_input = it.is_input
    \/ wpc' = "stopped"

\* C2: no event the writer has removed from the write queue is silently
\* discarded: after every step each event of the pending batch is still held
\* (batch or retry map), or committed, or the writer has halted.
C2_NoSilentDiscard ==
    [][\A i \in 1..Len(batch) : KeptNext(batch[i])]_vars

ThresholdReached ==
    \E i \in 1..Len(failed_addresses) : failed_addresses[i].attempts >= max_retries

\* C3: once address resolution for a key has failed max_retries times the
\* writer processes no further batch: it takes no further event from the
\* write queue and commits nothing more.
C3_EscalatesOutOfWriter ==
    [][ThresholdReached => (Len(batch') <= Len(batch) /\ db' = db)]_vars

\* C4: no transaction row and no block row of a sighting is committed while
\* the sighting's address_key has no row in p2pk_addresses (its id could not
\* be resolved), in the failing flush or in any later one.
C4_NoDependentRowOfUnresolvedKey ==
    \A r \in db.txs \cup db.blks : db.addrs[r.address_key] # NoRow

(***************************************************************************)
(* Part 6.  The classifier specification: one decoded block, drawn from    *)
(* the catalogs, to which the quick scan, the output classifier and the    *)
(* worker's two modes are applied.                                         *)
(***************************************************************************)

InitClassify ==
    /\ PipelineInit(DefaultConfig, IdleChain)
    /\ \E outs \in OutputLists, inp \in 1..Len(InputCatalog) :
         cl = [IdleCl EXCEPT !.block_data = TestBlock(outs, inp)]
    /\ stdin = <<>>
    /\ ap = IdleAp
    /\ boot = IdleBoot
    /\ rpc = IdleRpc
    /\ conn = IdleConn

\* quick_scan_block_for_p2pk(block_data)
ClQuickScan ==
    /\ "quick" \notin cl.done
    /\ cl' = [cl EXCEPT !.quick = quick_scan_block_for_p2pk(cl.block_data),
                        !.done = @ \cup {"quick"}]
    /\ UNCHANGED <<pipeVars, ap, rpc, conn>>

\* is_p2pk_script(vout['scriptPubKey']) for every output of the block
ClClassify ==
    /\ "classify" \notin cl.done
    /\ cl' = [cl EXCEPT
                !.keys = [i \in 1..Len(cl.block_data.tx[1].vout) |->
                            is_p2pk_script(cl.block_data.tx[1].vout[i].scriptPubKey)],
                !.done = @ \cup {"classify"}]
    /\ UNCHANGED <<pipeVars, ap, rpc, conn>>

\* worker(..., quick_scan=True) on the block
ClWorkerQuick ==
    /\ "worker_quick" \notin cl.done
    /\ cl' = [cl EXCEPT !.ev_quick = WorkerBlockEvents(cl.block_data, ClHeight, NodeTxs, TRUE),
                        !.done = @ \cup {"worker_quick"}]
    /\ UNCHANGED <<pipeVars, ap, rpc, conn>>

\* worker(..., quick_scan=False) on the block
ClWorkerFull ==
    /\ "worker_full" \notin cl.done
    /\ cl' = [cl EXCEPT !.ev_full = WorkerBlockEvents(cl.block_data, ClHeight, NodeTxs, FALSE),
                        !.done = @ \cup {"worker_full"}]
    /\ UNCHANGED <<pipeVars, ap, rpc, conn>>

NextClassify == ClQuickScan \/ ClClassify \/ ClWorkerQuick \/ ClWorkerFull

SpecClassify == InitClassify /\ [][NextClassify]_vars

SeqToSet(q) == {q[i] : i \in 1..Len(q)}

\* C9: for every block the events a worker enqueues with quick_scan enabled
\* are the events it enqueues with quick_scan disabled.
C9_QuickScanNeutral ==
    {"worker_quick", "worker_full"} \subseteq cl.done
        => SeqToSet(cl.ev_quick) = SeqToSet(cl.ev_full)

\* C10: when quick_scan_block_for_p2pk returns false for a block,
\* is_p2pk_script returns nothing for every output of the block.
C10_QuickScanSound ==
    ({"quick", "classify"} \subseteq cl.done /\ ~cl.quick)
        => \A i \in 1..Len(cl.keys) : cl.keys[i] = None

\* the P2PK events full processing of height h produces
EventsOf(h) == SeqToSet(ProcessBlock(PipelineBlocks[chain[h]], h, NodeTxs, 1))

Sightings == UNION {EventsOf(h) : h \in Heights}

Committed(ev) ==
    /\ \E r \in db.txs : r.txid = ev.txid /\ r.block_height = ev.block_height
                         /\ r.is_input = ev.is_input
    /\ \E r \in db.blks : r.txid = ev.txid /\ r.block_height = ev.block_height
                          /\ r.is_input = ev.is_input
    /\ db.addrs[KeyName(AddressKeyOf(ev.public_key_hex))] # NoRow

\* C6: the stored last_scanned_block never decreases, whatever the
\* interleaving of the workers' updates, the periodic update and the final
\* update.
C6_ProgressMonotone ==
    [][progress'.last_scanned_block >= progress.last_scanned_block]_vars

\* C7: whenever the stored last_scanned_block is h, the events of every
\* height of the scan range up to h are committed.
C7_ProgressBehindData ==
    \A h \in Heights :
        h <= progress.last_scanned_block => \A ev \in EventsOf(h) : Committed(ev)

PairsOf(tx) ==
    {[public_key_hex |-> is_p2pk_script(tx.vout[i].scriptPubKey), is_input |-> FALSE] :
        i \in {j \in 1..Len(tx.vout) : is_p2pk_script(tx.vout[j].scriptPubKey) # None}}
    \cup
    {[public_key_hex |-> is_p2pk_script(NodeTxs[tx.vin[i].txid].vout[tx.vin[i].vout + 1].scriptPubKey),
      is_input |-> TRUE] :
        i \in {j \in 1..Len(tx.vin) :
                /\ tx.vin[j].has_prev
                /\ might_be_p2pk_input(tx.vin[j])
                /\ tx.vin[j].txid \in DOMAIN NodeTxs
                /\ tx.vin[j].vout + 1 <= Len(NodeTxs[tx.vin[j].txid].vout)
                /\ is_p2pk_script(NodeTxs[tx.vin[j].txid].vout[tx.vin[j].vout + 1].scriptPubKey)
                       # None}}

\* C11: process_transaction emits exactly one event for each distinct
\* (public key, direction) pair of the transaction, and no other event.
C11_DedupPerKeyAndDirection ==
    "worker_full" \in cl.done =>
        /\ \A pr \in PairsOf(cl.block_data.tx[1]) :
              Cardinality({i \in 1..Len(cl.ev_full) :
                              /\ cl.ev_full[i].public_key_hex = pr.public_key_hex
                              /\ cl.ev_full[i].is_input = pr.is_input}) = 1
        /\ \A i \in 1..Len(cl.ev_full) :
              [public_key_hex |-> cl.ev_full[i].public_key_hex,
               is_input |-> cl.ev_full[i].is_input] \in PairsOf(cl.block_data.tx[1])

\* C12: once the stop event is set and every worker has exited, no height is
\* left in any worker queue: every height the distributor placed, or goes on
\* to place, was taken by its worker before that worker exited.
C12_StopProcessesHandedOut ==
    (stop_event /\ \A w \in Workers : wk[w].pc = "stopped")
        => \A w \in Workers : worker_queues[w] = <<>>


\* every height has left the ingress queue and the worker queues and has been
\* handled by a worker: counted as scanned or counted as failed
AllHandled ==
    /\ main_queue = <<>>
    /\ \A w \in Workers : worker_queues[w] = <<>> /\ wk[w].pc = "get"
    /\ total_blocks_scanned + blocks_failed = total_blocks_to_scan

\* C13: in a run without a stop signal, once the ingress queue is drained and
\* every height has been handled by a worker (scanned or counted as failed),
\* the supervisor eventually leaves its monitoring loop, shuts the writer
\* down and returns.
C13_RunTerminates == AllHandled ~> (sup.pc = "done")

\* the heights no worker has finished with: still queued, in the
\* distributor's hand, or being processed
InFlight ==
    SeqToSet(main_queue)
        \cup UNION {SeqToSet(worker_queues[w]) : w \in Workers}
        \cup (IF dist.pc = "put" THEN {dist.hand} ELSE {})
        \cup {wk[w].block_height : w \in {v \in Workers : wk[v].pc \notin {"get", "stopped"}}}

\* the main thread's periodic or final update_scan_progress is this step
SupervisorWrites ==
    \/ sup.pc = "final_update" /\ sup'.pc = "db_shutdown"
    \/ sup'.last_progress_update # sup.last_progress_update

\* C14: every last_scanned_block the supervisor writes, in a periodic or the
\* final update, is a height h of the scan range with every height of
\* start..h completed; and after a clean run with no failure the stored value
\* is the last height of the range.
C14_SupervisorProgressIsCompletedPrefix ==
    /\ [][SupervisorWrites =>
            /\ progress'.last_scanned_block \in Heights
            /\ \A h \in config.start_block..progress'.last_scanned_block :
                   h \notin InFlight']_vars
    /\ [](sup.pc = "done" /\ blocks_failed = 0 /\ ~stop_event
            => progress.last_scanned_block = config.end_block)

\* C15: when the pause flag is set and the write queue is deeper than the
\* pause threshold, the writer drains the queue and the controller clears the
\* flag, as long as the supervisor's monitoring loop is still running.
C15_PauseConverges ==
    (pause_event /\ Len(write_queue) > config.auto_pause_threshold
         /\ sup.pc = "monitor")
        ~> (~pause_event \/ sup.pc # "monitor")

\* the flag is set above the threshold while a worker waits in the pause loop
\* with a block to process and no worker is producing
C15_Witness ==
    /\ pause_event
    /\ Len(write_queue) > config.auto_pause_threshold
    /\ sup.pc = "monitor"
    /\ \A w \in Workers : wk[w].pc \in {"get", "hold"}
    /\ \E w \in Workers : wk[w].pc = "hold"

\* C16: check_auto_pause sets the flag exactly when auto-pause is enabled,
\* the depth is above the pause threshold and the flag was clear; clears it
\* exactly when auto-pause is enabled, the depth is below the resume
\* threshold and the flag was set; leaves it alone otherwise; and returns
\* true exactly when it changed the flag.
C16_PauseHysteresis ==
    ap.called =>
        LET sets == config.auto_pause_enabled /\ ~ap.before
                        /\ ap.queue_depth > config.auto_pause_threshold
            clears == config.auto_pause_enabled /\ ap.before
                        /\ ap.queue_depth < config.auto_resume_threshold
        IN  /\ (pause_event /\ ~ap.before) <=> sets
            /\ (~pause_event /\ ap.before) <=> clears
            /\ ap.ret <=> (pause_event # ap.before)

\* a call that found the flag set with the queue below the resume threshold,
\* cleared it and returned true
C16_Witness ==
    /\ ap.called /\ ap.before /\ ~pause_event /\ ap.ret
    /\ ap.queue_depth < config.auto_resume_threshold

\* C17: a pause the operator set with 'p' stays set until the operator types
\* 'p' again, whatever the queue depth, and the operator's resume leaves the
\* flag clear.  Under SpecStop the queue never gets above the pause
\* threshold, so a set flag was set by the operator; a step that clears it
\* must be the keyboard listener reading a line.
C17_ManualPauseOverrides ==
    [][/\ (pause_event /\ ~pause_event') => stdin' # stdin
       /\ (stdin' # stdin /\ Head(stdin) = "p" /\ pause_event) => ~pause_event']_vars

\* the heights the distributor has put into some worker queue so far
AlreadyPlaced ==
    Heights \ (SeqToSet(main_queue)
                   \cup (IF dist.pc = "put" THEN {dist.hand} ELSE {}))

\* C18: heights are placed into the worker queues in strictly increasing
\* order: each height put into any worker queue is greater than every height
\* put into any worker queue before it.
C18_DistributionAscending ==
    [][\A w \in Workers :
          Len(worker_queues'[w]) > Len(worker_queues[w])
              => \A a \in AlreadyPlaced :
                     a < worker_queues'[w][Len(worker_queues'[w])]]_vars

\* the second worker's queue has received a height after another height had
\* been placed
C18_Witness ==
    /\ config.threads = 2
    /\ worker_queues[2] # <<>>
    /\ Cardinality(AlreadyPlaced) >= 2

\* worker w leaves get_block_by_height by one of the failure paths: the
\* "continue" after an empty result, or the except branch
FailureStep(w) ==
    /\ wk[w].pc = "hold"
    /\ wk'[w].pc \in {"get", "fail_progress"}

\* C19: when a height fails (the fetch returns nothing or raises), the failed
\* counter goes up by one, total_blocks_scanned does not change, and the
\* worker goes back to its queue for the next height; nothing else changes
\* the failed counter.
C19_FailureAccounting ==
    [][/\ \A w \in Workers :
              FailureStep(w) => /\ blocks_failed' = blocks_failed + 1
                                /\ total_blocks_scanned' = total_blocks_scanned
       /\ blocks_failed' # blocks_failed => \E w \in Workers : FailureStep(w)
       /\ \A w \in Workers :
              (wk[w].pc = "fail_progress" /\ wk'[w] # wk[w])
                  => /\ wk'[w].pc = "get"
                     /\ blocks_failed' = blocks_failed
                     /\ total_blocks_scanned' = total_blocks_scanned]_vars

\* the only worker failed on the first height and has taken the second
C19_Witness ==
    /\ config.threads = 1
    /\ blocks_failed = 1
    /\ total_blocks_scanned = 0
    /\ wk[1].pc = "hold"
    /\ wk[1].block_height = FirstBlock + 1

\* C20: no step of a worker changes a database table: the scan_progress rows
\* and the P2PK tables change only in steps of other threads.
C20_WorkersLeaveDatabaseUntouched ==
    [][wk' # wk => /\ progress' = progress
                   /\ marker' = marker
                   /\ db' = db]_vars

\* the start the claim names: one past the stored last_scanned_block
ResumeStart ==
    get_scan_progress(boot.original_last_scanned_block,
                      progress.last_scanned_block) + 1

\* C21: when neither --reset nor --start-block overrides the stored progress,
\* the scan starts at last_scanned_block + 1, and for every start <= end,
\* start = end included, the ingress queue holds exactly start..end in
\* increasing order and the pipeline is launched.
C21_StartupRange ==
    (sup.pc # "startup" /\ ~boot.reset /\ boot.start_block = NoArg
         /\ ResumeStart <= EndBlockOf(boot))
        => /\ sup.pc = "monitor"
           /\ config.start_block = ResumeStart
           /\ config.end_block = EndBlockOf(boot)
           /\ main_queue = [i \in 1..(EndBlockOf(boot) - ResumeStart + 1) |->
                               ResumeStart + i - 1]

\* the row of queue item it is in table rows
RowIn(it, rows) ==
    \E r \in rows : /\ r.txid = it.txid
                    /\ r.block_height = it.block_height
                    /\ r.is_input = it.is_input

\* the writer thread flushes its batch in this step
WriterFlushes ==
    \/ wpc = "flush" /\ wpc' = "get"
    \/ wpc = "get" /\ wpc' = "stopped"

\* C22: every flush commits the transaction rows and the block rows of its
\* batch together: after the flush either all of them are in the tables, or
\* the two tables are as they were.
C22_BatchIsOneTransaction ==
    [][WriterFlushes =>
          \/ db'.txs = db.txs /\ db'.blks = db.blks
          \/ \A i \in 1..Len(batch) :
                /\ batch[i].type = "transaction" => RowIn(batch[i], db'.txs)
                /\ batch[i].type = "block" => RowIn(batch[i], db'.blks)]_vars

\* C23: a 401/403 answer makes _make_request raise after exactly one request,
\* with no retry and no retry delay; only transport errors are retried, and a
\* call makes at most MAX_RETRIES requests.
C23_AuthFailureNotRetried ==
    /\ rpc.requests <= MAX_RETRIES
    /\ \A i \in 1..rpc.requests :
          i < rpc.requests => rpc.answers[i] = "transport"
    /\ (rpc.requests >= 1 /\ rpc.answers[1] = "http_auth")
          => rpc.pc = "raised" /\ rpc.requests = 1 /\ rpc.sleeps = 0

\* a valid public key: 130 hex characters starting 04, or 66 hex characters
\* starting 02 or 03
ValidKey(pk) ==
    /\ \A i \in 1..Len(pk) : pk[i] \in HexDigits
    /\ \/ Len(pk) = 130 /\ pk[1] = "0" /\ pk[2] = "4"
       \/ Len(pk) = 66 /\ pk[1] = "0" /\ pk[2] \in {"2", "3"}

\* a descriptor that names no key at all: no hex, and an asm that is empty,
\* does not end in OP_CHECKSIG or does not start with a valid key
Malformed(spk) ==
    /\ spk.hex = <<>>
    /\ \/ spk.asm = <<>>
       \/ spk.asm[Len(spk.asm)] # OP_CHECKSIG
       \/ ~ValidKey(spk.asm[1])

DependentItems ==
    {batch[i] : i \in {j \in 1..Len(batch) : batch[j].type \in {"transaction", "block"}}}

\* C25: in every flush the writer's address_key -> id map covers the key of
\* every transaction and block event of the batch, also of keys that did not
\* arrive as address events in this batch: every dependent row the flush
\* inserts carries the id of its key's address row; and when a key cannot be
\* resolved the flush inserts no dependent row and the writer halts.
C25_FlushCoversEveryKey ==
    [][WriterFlushes =>
          IF \A it \in DependentItems : db'.addrs[it.address_key] # NoRow
          THEN \A r \in (db'.txs \cup db'.blks) \ (db.txs \cup db.blks) :
                   r.address_id = db'.addrs[r.address_key].id
          ELSE /\ db'.txs = db.txs
               /\ db'.blks = db.blks
               /\ wpc' = "stopped"]_vars

\* the attempts the retry map holds for key k in the next state, 0 if none
AttemptsNext(k) == FailedAttempts(failed_addresses', k)

\* C26: the attempt counter of a key accumulates across flushes: a flush in
\* which the key's resolution fails again leaves it at one more than before
\* (1, 2, 3 after three failed flushes in a row); taking the key out of the
\* retry map for the next flush does not reset it.
C26_AttemptsAccumulate ==
    [][WriterFlushes =>
          \A k \in AddressKeys :
              (FailedAttempts(failed_addresses, k) > 0 /\ AttemptsNext(k) > 0)
                  => AttemptsNext(k) = FailedAttempts(failed_addresses, k) + 1]_vars

RetryKeys == {failed_addresses[i].address_key : i \in 1..Len(failed_addresses)}

\* the keys that arrive as address items in the writer's batch and are not
\* in the retry map
NewKeys ==
    {batch[i].address_key : i \in {j \in 1..Len(batch) : batch[j].type = "address"}}
        \ RetryKeys

\* the position of key k in the next state's retry map
RetryIndexNext(k) ==
    CHOOSE i \in 1..Len(failed_addresses') : failed_addresses'[i].address_key = k

\* C27: every address of the retry map is attempted again in the next flush,
\* and before every newly arrived address: after the flush it has its row or
\* is back in the retry map; it gets the smaller id when both are inserted
\* and the earlier place in the retry map when both fail.
C27_RetriedFirst ==
    [][WriterFlushes /\ batch # <<>> =>
          \A k \in RetryKeys :
              /\ db'.addrs[k] # NoRow \/ AttemptsNext(k) > 0
              /\ \A n \in NewKeys :
                    /\ (/\ db.addrs[k] = NoRow /\ db.addrs[n] = NoRow
                        /\ db'.addrs[k] # NoRow /\ db'.addrs[n] # NoRow)
                           => db'.addrs[k].id < db'.addrs[n].id
                    /\ (AttemptsNext(k) > 0 /\ AttemptsNext(n) > 0)
                           => RetryIndexNext(k) < RetryIndexNext(n)]_vars

\* flush K left kA in the retry map, and flush K+1 is under way with the
\* newly arrived address kB in its batch
C27_Witness ==
    /\ wpc = "flush"
    /\ "kA" \in RetryKeys
    /\ "kB" \in NewKeys
    /\ db.addrs["kA"] = NoRow
    /\ db.addrs["kB"] = NoRow

\* The address keys a flush works on: the keys of the retry map and the keys of
\* the batch's own address items (address_keys_in_batch, lines 262-282).
AddressKeysOfFlush ==
    RetryKeys \cup {batch[i].address_key :
                       i \in {j \in 1..Len(batch) : batch[j].type = "address"}}

\* C28: within one flush, every address upsert and lookup of the batch is done
\* and committed before the first transaction or block row of the batch is
\* written: a flush that writes a dependent row leaves a committed address row
\* for every address key it worked on, and each row it writes for such a key
\* carries the id of that committed row.
C28_AddressesBeforeDependentRows ==
    [][WriterFlushes /\ (db'.txs # db.txs \/ db'.blks # db.blks) =>
          /\ \A k \in AddressKeysOfFlush : db'.addrs[k] # NoRow
          /\ \A r \in (db'.txs \cup db'.blks) \ (db.txs \cup db.blks) :
                r.address_key \in AddressKeysOfFlush =>
                    /\ r.address_id # NullId
                    /\ r.address_id = db'.addrs[r.address_key].id]_vars

\* A flush has written the first dependent row of the run, and the row carries
\* the id of its address row.
C28_Witness ==
    /\ wpc = "get"
    /\ batch = <<>>
    /\ Cardinality(db.txs \cup db.blks) = 1
    /\ \A r \in db.txs \cup db.blks :
          /\ r.address_id # NullId
          /\ r.address_id = db.addrs[r.address_key].id

\* how many times height h occurs in queue q
Occurrences(q, h) == Cardinality({i \in 1..Len(q) : q[i] = h})

\* the workers that hold a height they have not counted yet
HoldingWorkers ==
    {w \in Workers : wk[w].pc \in {"hold", "put_address", "put_transaction",
                                   "put_block", "count"}}

\* in how many places height h is: the ingress queue, the worker queues, the
\* distributor's local block_height, a worker's local block_height
PlacesOf(h) ==
    Occurrences(main_queue, h)
        + Cardinality({<<w, i>> \in Workers \X (1..total_blocks_to_scan) :
                          i <= Len(worker_queues[w]) /\ worker_queues[w][i] = h})
        + (IF dist.pc = "put" /\ dist.hand = h THEN 1 ELSE 0)
        + Cardinality({w \in HoldingWorkers : wk[w].block_height = h})

\* C29: every height of the range is in at most one place (ingress queue, one
\* worker queue, the distributor's hand, one worker's hand), and the heights
\* that are in no place are exactly the ones counted as scanned or failed: no
\* height is lost and none is delivered twice.
C29_HeightsConserved ==
    /\ \A h \in Heights : PlacesOf(h) <= 1
    /\ Cardinality({h \in Heights : PlacesOf(h) = 1})
           + total_blocks_scanned + blocks_failed = total_blocks_to_scan

\* the distributor holds a height it has taken from the ingress queue while
\* the other height has been handled as failed
C29_Witness ==
    /\ dist.pc = "put"
    /\ dist.hand \in Heights
    /\ blocks_failed = 1
    /\ main_queue = <<>>

\* C30: with the distributor as the only producer and the worker as the only
\* consumer of a worker queue, no worker queue ever holds more than
\* target_depth heights.
C30_TargetDepthBound ==
    \A w \in Workers : Len(worker_queues[w]) <= config.target_depth

\* the distributor stands at a worker queue it has filled to target_depth
\* while the ingress queue still holds heights
C30_Witness ==
    /\ dist.pc = "fill"
    /\ dist.depth = config.target_depth
    /\ Len(worker_queues[dist.i]) = config.target_depth
    /\ main_queue # <<>>

\* nothing is left to distribute: the ingress queue and every worker queue
\* are empty and the distributor holds no height
NothingToDistribute ==
    /\ main_queue = <<>>
    /\ \A w \in Workers : worker_queues[w] = <<>>
    /\ dist.pc # "put"

Holds(w) == wk[w].pc \notin {"get", "stopped"}

\* worker w is past the pause loop, working on its block
Processing(w) == Holds(w) /\ wk[w].pc # "hold"

\* the next statement of worker w, whatever it is
WorkerStep(w) ==
    \/ WorkerGet(w)
    \/ WorkerFetch(w)
    \/ WorkerPut(w)
    \/ WorkerCount(w)
    \/ WorkerProgress(w)

\* C32: a worker that takes a height keeps it, also while the pause event is
\* set: the height is not dropped and not put back into a queue, the worker
\* leaves the pause loop only when the pause event is clear or the stop event
\* is set and can do so as soon as that is the case, and a worker that is
\* processing a block goes on to the end of the block whatever the pause and
\* stop events are.
C32_PauseKeepsHeight ==
    /\ [][\A w \in Workers :
             /\ Len(worker_queues'[w]) < Len(worker_queues[w])
                   => /\ wk'[w].pc = "hold"
                      /\ wk'[w].block_height = Head(worker_queues[w])
             /\ Len(worker_queues'[w]) > Len(worker_queues[w]) => dist' # dist
             /\ Len(main_queue') <= Len(main_queue)
             /\ Holds(w)
                   => /\ wk'[w].pc # "stopped"
                      /\ wk'[w].pc # "get" => wk'[w].block_height = wk[w].block_height
                      /\ wk'[w].pc = "get"
                            => \/ wk[w].pc \in {"progress", "skip_progress", "fail_progress"}
                               \/ blocks_failed' = blocks_failed + 1
             /\ (wk[w].pc = "hold" /\ wk'[w].pc # "hold")
                   => (~pause_event \/ stop_event)
             /\ Processing(w) => wk'[w].pc # "hold"]_vars
    /\ [](\A w \in Workers :
             /\ (wk[w].pc = "hold" /\ (~pause_event \/ stop_event))
                   => ENABLED WorkerFetch(w)
             /\ (Processing(w) /\ (wk[w].pc \in {"count", "progress", "skip_progress",
                                                "fail_progress"}
                                     \/ Len(write_queue) < config.queue_size))
                   => ENABLED WorkerStep(w))

\* a worker is finishing the block it held through a pause that the stop
\* signal ended
C32_Witness ==
    \E w \in Workers :
        /\ wk[w].pc = "progress"
        /\ pause_event
        /\ stop_event

\* C33: when shutdown() has returned the write queue is empty and every event
\* has been passed to a flush: no flush of a non-empty batch happens after
\* shutdown() has closed the database connection.
C33_ShutdownDrainsEverything ==
    /\ [](sup.pc = "done" => write_queue = <<>>)
    /\ [][(sup.pc = "done" /\ WriterFlushes) => batch = <<>>]_vars

\* the main thread runs _flush_batch inside shutdown() in this step
MainThreadFlushes ==
    /\ sup.pc = "db_join"
    /\ sup'.pc = "done"
    /\ write_queue # <<>>

\* C34: at most one thread executes a flush at any moment and only that
\* thread reads and modifies the retry map: the main thread flushes inside
\* shutdown() only when the writer thread is not in its own flush, and the
\* retry map changes in a step of the writer thread or, once that thread has
\* ended, of shutdown() only.
C34_SingleWriter ==
    [][/\ MainThreadFlushes => wpc # "flush"
       /\ failed_addresses' # failed_addresses
             => (WriterFlushes \/ (MainThreadFlushes /\ wpc = "stopped"))]_vars

\* the main thread's final update_scan_progress is this step
FinalProgressWrite ==
    /\ sup.pc = "final_update"
    /\ sup'.pc = "db_shutdown"

\* C35: the final write of last_scanned_block comes after the writer's final
\* flush: when the supervisor writes it, no event is left in the write queue
\* or in the writer's batch.
C35_FinalProgressAfterFlush ==
    [][FinalProgressWrite => (write_queue = <<>> /\ batch = <<>>)]_vars

\* nothing is left for worker w: the ingress queue is drained, the
\* distributor has finished and the worker waits at its empty queue
NothingLeftFor(w) ==
    /\ main_queue = <<>>
    /\ dist.pc = "done"
    /\ worker_queues[w] = <<>>
    /\ wk[w].pc = "get"

\* C36: in a run with no stop signal, once the ingress queue is drained, the
\* distributor has finished and the first worker's queue is empty, that
\* worker eventually leaves its loop.
C36_WorkerExitsOnCompletion ==
    (~stop_event /\ NothingLeftFor(1)) ~> (wk[1].pc = "stopped")

\* C37: with no --start-block and no --reset, the scan starts at the
\* last_scanned_block of the running scanner's own scan_progress row plus
\* one, whatever the rows of other scanners hold.
C37_ResumeFromOwnRow ==
    (sup.pc = "monitor" /\ ~boot.reset /\ boot.start_block = NoArg)
        => config.start_block = progress.last_scanned_block + 1

\* the writer's own commit or rollback is this step
WriterEndsTransaction ==
    /\ conn.wpc \in {"executed", "raised"}
    /\ conn'.wpc = "idle"

\* C38: rows a flush has inserted and not yet committed leave the open
\* transaction only by the writer's own commit or rollback: no commit or
\* rollback issued for a worker or for the supervisor commits or discards
\* them.
C38_WriterTransactionIsolated ==
    [][\A r \in conn.uncommitted :
          (r.by = "writer" /\ r \notin conn'.uncommitted) => WriterEndsTransaction]_vars

\* C39: a worker is in active_workers only while it is processing a block:
\* once it has finished with a height on any path it is no longer in the
\* set, so the set is empty when no worker holds a block.
C39_ActiveWorkersExact ==
    \A w \in active_workers : Processing(w)

\* C40: over one run the total_blocks_scanned column of the scanner's
\* scan_progress row grows by the number of blocks processed successfully in
\* the run: it never exceeds the run's count, and it equals the count once
\* shutdown has returned with no worker in a block.
C40_PersistedTotalExact ==
    /\ progress.total_blocks_scanned <= total_blocks_scanned
    /\ (sup.pc = "done" /\ \A w \in Workers : ~Holds(w))
          => progress.total_blocks_scanned = total_blocks_scanned

====
